---- MODULE Spec2Model ----
(***************************************************************************)
(* A model of protoc-gen-toit: the import resolver, the type registry and  *)
(* field classifier, the per-message generator, and the classes it emits.  *)
(*                                                                         *)
(* Strings of the program are TLA+ strings, taken apart with Len, Head,    *)
(* Tail and SubSeq, so that prefix tests, trimming, upper-casing and       *)
(* concatenation are computed as the Go code computes them.                *)
(***************************************************************************)
EXTENDS Integers, Sequences, FiniteSets, TLC

VARIABLES
    \* ---- import resolver (newImportResolver / resolveImport) ----
    importLibraries,   \* options.ImportLibraries handed to newImportResolver
    sourceFile,        \* resolveImport's sourceFile argument
    importFile,        \* resolveImport's importFile argument
    resolver,          \* the importResolver {keys, values}
    prefixKey,         \* resolveImport's local prefixKey (None: nil)
    importRef,         \* resolveImport's result
    ipc,               \* position of the resolver run
    \* ---- one run of the plugin (main / Run / Generate) ----
    req,               \* the CodeGeneratorRequest read from stdin
    options,           \* g.options
    types,             \* g.types: the registry, fully-qualified name -> referType
    imports,           \* g.imports: file name -> import alias
    fileIdx,           \* Generate's position in req.ProtoFile
    resp,              \* the files appended to the response so far
    err,               \* the error returned ("" : nil)
    stdout,            \* what main wrote to os.Stdout
    pc,                \* position of the run
    \* ---- one object of a generated class ----
    cls,               \* the class the generator emitted
    object,            \* the object's fields: name -> value
    lastCall,          \* the last operation called on the object
    given,             \* the arguments the default constructor was called with
    opc,               \* position of the object's life
    \* ---- the calls of resolveFieldType, one at a time ----
    callStack,         \* the calls of resolveFieldType in progress, outermost first
    returned,          \* the call that returned last and its result (nil: none yet)
    cpc,               \* position of the classification
    \* ---- the operations issued to the code writer for one message ----
    program,           \* the operations writeMessage issues, in order
    issued,            \* how many of them have been issued
    open,              \* the constructs begun and not yet ended, outermost first
    wellNested,        \* every end so far closed the innermost open construct
    failed,            \* the writer has returned an error
    werr,              \* the error writeMessage returned ("": nil)
    wpc,               \* position of writeMessage
    \* ---- one call of uniqueName ----
    uargs,             \* the arguments name, namespace and prefix (nil: no call)
    uresult,           \* the name returned
    upc,               \* position of the call
    \* ---- the Go runtime ----
    rangeOrder         \* the order in which this run's range over a map takes the keys

ivars == <<importLibraries, sourceFile, importFile, resolver, prefixKey, importRef, ipc>>
gvars == <<req, options, types, imports, fileIdx, resp, err, stdout, pc>>

ovars == <<cls, object, lastCall, given, opc>>

cvars == <<callStack, returned, cpc>>

wvars == <<program, issued, open, wellNested, failed, werr, wpc>>

uvars == <<uargs, uresult, upc>>

vars == <<ivars, gvars, ovars, cvars, wvars, uvars, rangeOrder>>

\* No message is being written.
WriterIdle ==
    /\ program = <<>> /\ issued = 0 /\ open = <<>> /\ wellNested = TRUE
    /\ failed = FALSE /\ werr = "" /\ wpc = "idle"

\* No order is chosen: a range over a map takes the keys in ascending order.
RangeAscending == rangeOrder = <<>>

\* No call of uniqueName is looked at.
UniqueIdle == uargs = [nil |-> TRUE] /\ uresult = "<nil>" /\ upc = "idle"

None == "<nil>"

-----------------------------------------------------------------------------
(* Strings.                                                                *)

\* The byte value of each character the model uses (sort.Strings and the
\* comparison of Go strings are byte-wise).
CharCode ==
    [c \in {".", "/", "=", "A", "B", "C", "D", "E", "I", "K", "L", "M", "N",
            "O", "P", "R", "S", "T", "U", "V", "X", "Y", "Z", "_",
            "a", "b", "c", "d", "e", "f", "g", "h", "i", "k", "l", "m", "n",
            "o", "p", "q", "r", "s", "t", "u", "v", "w", "x", "y", "z"} |->
        CASE c = "." -> 46 [] c = "/" -> 47 [] c = "=" -> 61
          [] c = "A" -> 65 [] c = "B" -> 66 [] c = "C" -> 67 [] c = "D" -> 68
          [] c = "E" -> 69 [] c = "I" -> 73 [] c = "K" -> 75 [] c = "L" -> 76
          [] c = "M" -> 77 [] c = "N" -> 78 [] c = "O" -> 79 [] c = "P" -> 80
          [] c = "R" -> 82 [] c = "S" -> 83 [] c = "T" -> 84 [] c = "U" -> 85
          [] c = "V" -> 86 [] c = "X" -> 88 [] c = "Y" -> 89 [] c = "Z" -> 90
          [] c = "_" -> 95
          [] c = "a" -> 97 [] c = "b" -> 98 [] c = "c" -> 99 [] c = "d" -> 100
          [] c = "e" -> 101 [] c = "f" -> 102 [] c = "g" -> 103 [] c = "h" -> 104
          [] c = "i" -> 105 [] c = "k" -> 107 [] c = "l" -> 108 [] c = "m" -> 109
          [] c = "n" -> 110 [] c = "o" -> 111 [] c = "p" -> 112 [] c = "q" -> 113
          [] c = "r" -> 114 [] c = "s" -> 115 [] c = "t" -> 116 [] c = "u" -> 117
          [] c = "v" -> 118 [] c = "w" -> 119 [] c = "x" -> 120 [] c = "y" -> 121
          [] c = "z" -> 122]

\* strings.HasPrefix
HasPrefix(s, prefix) ==
    /\ Len(prefix) <= Len(s)
    /\ SubSeq(s, 1, Len(prefix)) = prefix

\* strings.HasSuffix
HasSuffix(s, suffix) ==
    /\ Len(suffix) <= Len(s)
    /\ SubSeq(s, Len(s) - Len(suffix) + 1, Len(s)) = suffix

\* strings.TrimPrefix
TrimPrefix(s, prefix) ==
    IF HasPrefix(s, prefix) THEN SubSeq(s, Len(prefix) + 1, Len(s)) ELSE s

\* strings.TrimSuffix
TrimSuffix(s, suffix) ==
    IF HasSuffix(s, suffix) THEN SubSeq(s, 1, Len(s) - Len(suffix)) ELSE s

\* strings.ReplaceAll for a non-empty old: non-overlapping, left to right.
RECURSIVE ReplaceAll(_, _, _)
ReplaceAll(s, old, new) ==
    IF s = "" THEN ""
    ELSE IF HasPrefix(s, old)
         THEN new \o ReplaceAll(SubSeq(s, Len(old) + 1, Len(s)), old, new)
         ELSE Head(s) \o ReplaceAll(Tail(s), old, new)

\* strings.Count(s, "/")
RECURSIVE CountSlash(_)
CountSlash(s) ==
    IF s = "" THEN 0
    ELSE (IF Head(s) = "/" THEN 1 ELSE 0) + CountSlash(Tail(s))

\* strings.Repeat
RECURSIVE Repeat(_, _)
Repeat(s, n) == IF n = 0 THEN "" ELSE s \o Repeat(s, n - 1)

\* The Go comparison a < b of two strings: byte-wise lexicographic.
RECURSIVE StrLess(_, _)
StrLess(a, b) ==
    IF b = "" THEN FALSE
    ELSE IF a = "" THEN TRUE
    ELSE IF CharCode[Head(a)] # CharCode[Head(b)]
         THEN CharCode[Head(a)] < CharCode[Head(b)]
         ELSE StrLess(Tail(a), Tail(b))

\* sort.Strings over the keys collected from a map: ascending, no duplicates.
RECURSIVE SortStrings(_)
SortStrings(S) ==
    IF S = {} THEN <<>>
    ELSE LET least == CHOOSE m \in S : \A o \in S \ {m} : StrLess(m, o)
         IN <<least>> \o SortStrings(S \ {least})

\* The position of the first occurrence of the character c in s, 0 if none
\* (strings.Index).
IndexOf(s, c) ==
    IF \A i \in 1..Len(s) : SubSeq(s, i, i) # c THEN 0
    ELSE CHOOSE i \in 1..Len(s) :
             SubSeq(s, i, i) = c /\ \A j \in 1..(i - 1) : SubSeq(s, j, j) # c

\* strings.Split(s, c) for a one-character separator.
RECURSIVE Split(_, _)
Split(s, c) ==
    LET k == IndexOf(s, c) IN
    IF k = 0 THEN <<s>>
    ELSE <<SubSeq(s, 1, k - 1)>> \o Split(SubSeq(s, k + 1, Len(s)), c)

\* The elements of a path between its slashes.
SplitSlash(p) == Split(p, "/")

RECURSIVE JoinWith(_, _)
JoinWith(parts, sep) ==
    IF parts = <<>> THEN ""
    ELSE IF Len(parts) = 1 THEN parts[1]
    ELSE parts[1] \o sep \o JoinWith(Tail(parts), sep)

\* path.Clean's walk over the elements: "." and empty elements are dropped,
\* ".." removes the element before it, is dropped at the root, and is kept
\* at the start of a relative path.
RECURSIVE CleanElems(_, _, _)
CleanElems(elems, kept, rooted) ==
    IF elems = <<>> THEN kept
    ELSE LET e == Head(elems) IN
         IF e = "" \/ e = "." THEN CleanElems(Tail(elems), kept, rooted)
         ELSE IF e = ".."
              THEN IF kept # <<>> /\ kept[Len(kept)] # ".."
                   THEN CleanElems(Tail(elems), SubSeq(kept, 1, Len(kept) - 1), rooted)
                   ELSE IF rooted
                        THEN CleanElems(Tail(elems), kept, rooted)
                        ELSE CleanElems(Tail(elems), Append(kept, e), rooted)
              ELSE CleanElems(Tail(elems), Append(kept, e), rooted)

\* path.IsAbs
IsAbs(p) == p # "" /\ Head(p) = "/"

\* path.Clean
Clean(p) ==
    LET rooted == IsAbs(p)
        body == JoinWith(CleanElems(SplitSlash(p), <<>>, rooted), "/")
    IN IF rooted THEN "/" \o body
       ELSE IF body = "" THEN "." ELSE body

\* path.Base of a non-empty path without trailing slash: its last element.
Base(p) == LET e == SplitSlash(p) IN e[Len(e)]

\* path.Ext: the suffix of the last element from its last dot on.
Ext(p) ==
    LET b == Base(p) IN
    IF \A i \in 1..Len(b) : SubSeq(b, i, i) # "." THEN ""
    ELSE LET k == CHOOSE i \in 1..Len(b) :
                      SubSeq(b, i, i) = "." /\ \A j \in (i + 1)..Len(b) : SubSeq(b, j, j) # "."
         IN SubSeq(b, k, Len(b))

\* strconv.Itoa for the numbers of the model.
DigitOf(d) ==
    CASE d = 0 -> "0" [] d = 1 -> "1" [] d = 2 -> "2" [] d = 3 -> "3" [] d = 4 -> "4"
      [] d = 5 -> "5" [] d = 6 -> "6" [] d = 7 -> "7" [] d = 8 -> "8" [] d = 9 -> "9"

RECURSIVE Itoa(_)
Itoa(n) == IF n < 10 THEN DigitOf(n) ELSE Itoa(n \div 10) \o DigitOf(n % 10)

DotProto == ".proto"
DotToit == ".toit"
PbToit == "_pb.toit"

\* toit.Path
Path(p0) ==
    LET p1 == Clean(p0)
        p2 == IF ~IsAbs(p1)
              THEN "." \o ReplaceAll(p1, "../", ".")
              ELSE Tail(p1)
        p3 == IF p2 # "" /\ Ext(p2) = DotToit THEN TrimSuffix(p2, DotToit) ELSE p2
    IN ReplaceAll(p3, "/", ".")

\* A plausible slip: the suffix is appended to the whole input path.
protoToFileAppends(f) == f \o PbToit

\* protoToFile
protoToFile(f) ==
    IF HasSuffix(f, DotProto) THEN TrimSuffix(f, DotProto) \o PbToit ELSE f

\* A plausible slip: the source file's directory depth is ignored.
relToitPathSameDirectory(fromFile, toFile) == Path(toFile)

\* relToitPath
relToitPath(fromFile, toFile) ==
    Path(Repeat("../", CountSlash(fromFile)) \o toFile)

-----------------------------------------------------------------------------
(* Import resolver.                                                        *)

protoLibrary == "protogen"
GoogleProtobufPrefix ==
    "google/protobuf/"
GoogleProtobufLibrary ==
    protoLibrary \o ".google.protobuf"

\* A plausible slip: the built-in rule is only a default, a user rule for the
\* same prefix replaces it.
newImportResolverUserFirst(libs) ==
    LET values == [k \in (DOMAIN libs) \cup {GoogleProtobufPrefix} |->
                      IF k \in DOMAIN libs THEN libs[k] ELSE GoogleProtobufLibrary]
    IN [keys |-> SortStrings(DOMAIN values), values |-> values]

\* newImportResolver: the built-in rule is stored over whatever the user gave
\* for that prefix, and the keys of the map are sorted.
newImportResolver(libs) ==
    LET values == [k \in (DOMAIN libs) \cup {GoogleProtobufPrefix} |->
                      IF k = GoogleProtobufPrefix THEN GoogleProtobufLibrary ELSE libs[k]]
    IN [keys |-> SortStrings(DOMAIN values), values |-> values]

\* A plausible slip: the keys are scanned from the front of the sorted list.
RECURSIVE scanKeysAscending(_, _, _)
scanKeysAscending(keys, i, file) ==
    IF i = 0 THEN None
    ELSE LET k == keys[Len(keys) - i + 1] IN
         IF HasPrefix(file, k) THEN k ELSE scanKeysAscending(keys, i - 1, file)

\* resolveImport's loop: for i := len(r.keys) - 1; i >= 0; i-- { ... break }
RECURSIVE scanKeys(_, _, _)
scanKeys(keys, i, file) ==
    IF i = 0 THEN None
    ELSE IF HasPrefix(file, keys[i]) THEN keys[i] ELSE scanKeys(keys, i - 1, file)

\* resolveImport, given the prefixKey its loop found.
resolveImportWith(r, key, src, imp) ==
    LET importProtoFile == protoToFile(imp) IN
    IF key = None THEN relToitPath(src, importProtoFile)
    ELSE r.values[key] \o Path(TrimPrefix(importProtoFile, key))

\* resolveImport
resolveImport(r, src, imp) ==
    resolveImportWith(r, scanKeys(r.keys, Len(r.keys), imp), src, imp)

\* The inputs of the resolver run.
MaxRules == 2

PrefixPool ==
    { "a/", "a/b/", "a/b", "ab/",
      "a", GoogleProtobufPrefix,
      "a/b/c", "a/b/c" \o DotProto }
LibraryPool == { "X", "Y" }
ImportPool ==
    { "a/b/c" \o DotProto,
      "a/c" \o DotProto,
      "ab/c" \o DotProto,
      "c" \o DotProto,
      GoogleProtobufPrefix \o "d" \o DotProto }
SourcePool == { "m" \o DotProto, "d/m" \o DotProto, "d/e/m" \o DotProto }

RuleSets ==
    UNION { [S -> LibraryPool] : S \in { T \in SUBSET PrefixPool : Cardinality(T) <= MaxRules } }

InitResolver ==
    /\ RangeAscending
    /\ importLibraries \in RuleSets
    /\ sourceFile = None
    /\ importFile = None
    /\ resolver = [keys |-> <<>>, values |-> <<>>]
    /\ prefixKey = None
    /\ importRef = None
    /\ ipc = "start"
    /\ req = [nil |-> TRUE] /\ options = [nil |-> TRUE] /\ types = <<>> /\ imports = <<>>
    /\ fileIdx = 0 /\ resp = [nil |-> TRUE] /\ err = "" /\ stdout = <<>> /\ pc = "idle"
    /\ cls = [nil |-> TRUE] /\ object = <<>> /\ lastCall = [nil |-> TRUE] /\ opc = "idle"
    /\ given = <<>>
    /\ callStack = <<>> /\ returned = [nil |-> TRUE] /\ cpc = "idle"
    /\ WriterIdle
    /\ UniqueIdle

\* newGenerator builds the resolver from the parsed options.
NewImportResolver ==
    /\ ipc = "start"
    /\ resolver' = newImportResolver(importLibraries)
    /\ ipc' = "ready"
    /\ UNCHANGED <<importLibraries, sourceFile, importFile, prefixKey, importRef, gvars, ovars, cvars, wvars, uvars, rangeOrder>>

\* One call r.resolveImport(src, imp).
ResolveImport ==
    /\ ipc \in {"ready", "resolved"}
    /\ \E src \in SourcePool, imp \in ImportPool :
          /\ sourceFile' = src
          /\ importFile' = imp
          /\ prefixKey' = scanKeys(resolver.keys, Len(resolver.keys), imp)
          /\ importRef' = resolveImport(resolver, src, imp)
    /\ ipc' = "resolved"
    /\ UNCHANGED <<importLibraries, resolver, gvars, ovars, cvars, wvars, uvars, rangeOrder>>

NextResolver == NewImportResolver \/ ResolveImport

SpecResolver == InitResolver /\ [][NextResolver]_vars

\* The rule prefixes that are a prefix of the imported path.
MatchingPrefixes == { k \in DOMAIN resolver.values : HasPrefix(importFile, k) }

\* C3: resolveImport applies the rule with the longest prefix among all rule
\* prefixes that are a prefix of the imported path, and the reference it
\* returns is rooted at that rule's library path.
C3_LongestPrefixWins ==
    ipc = "resolved" =>
        IF MatchingPrefixes = {} THEN prefixKey = None
        ELSE /\ prefixKey \in MatchingPrefixes
             /\ \A k \in MatchingPrefixes : Len(k) <= Len(prefixKey)
             /\ HasPrefix(importRef, resolver.values[prefixKey])
             /\ \A k \in MatchingPrefixes \ {prefixKey} :
                    resolver.values[k] # resolver.values[prefixKey]
                        => ~HasPrefix(importRef, resolver.values[k])

\* The imported path after the rule's prefix.
Remainder == SubSeq(importFile, Len(prefixKey) + 1, Len(importFile))

\* C16: whenever a rule applies, resolveImport returns the rule's library
\* path followed by the module path of the remainder: the imported path with
\* the whole prefix of the rule stripped, then .proto replaced by _pb.toit,
\* then translated by toit.Path.
C16_RuleRewritesRemainder ==
    (ipc = "resolved" /\ prefixKey # None) =>
        importRef = resolver.values[prefixKey] \o Path(protoToFile(Remainder))

\* C18: whatever rules the user supplied, the rule set of the resolver holds
\* the built-in rule google/protobuf/ -> protogen.google.protobuf, every user
\* rule for another prefix with its own replacement, and nothing else; the
\* keys scanned by resolveImport are exactly the prefixes of the rule set.
C18_BuiltInRuleAlwaysPresent ==
    ipc # "start" =>
        /\ DOMAIN resolver.values = DOMAIN importLibraries \cup {"google/protobuf/"}
        /\ resolver.values["google/protobuf/"] = "protogen.google.protobuf"
        /\ \A k \in DOMAIN importLibraries \ {"google/protobuf/"} :
               resolver.values[k] = importLibraries[k]
        /\ { resolver.keys[i] : i \in 1..Len(resolver.keys) } = DOMAIN resolver.values
        /\ Len(resolver.keys) = Cardinality(DOMAIN resolver.values)

\* The user supplied google/protobuf/ -> X and a/ -> Y: the resolver holds
\* the built-in library for the first and Y for the second.
C18_Witness ==
    /\ ipc = "ready"
    /\ DOMAIN importLibraries = {"google/protobuf/", "a/"}
    /\ importLibraries["google/protobuf/"] = "X"
    /\ importLibraries["a/"] = "Y"
    /\ resolver.values["google/protobuf/"] = "protogen.google.protobuf"
    /\ resolver.values["a/"] = "Y"

\* The components of the imported path joined by dots, with .proto replaced
\* by _pb.
DottedImport == JoinWith(SplitSlash(TrimSuffix(importFile, DotProto) \o "_pb"), ".")

\* C17: when no rule prefix is a prefix of the imported path, resolveImport
\* returns n + 1 dots, n being the number of separators in the path of the
\* source file, followed by the components of the imported path joined by
\* dots with .proto replaced by _pb.
C17_NoRuleGivesRelativePath ==
    (ipc = "resolved" /\ MatchingPrefixes = {}) =>
        importRef = Repeat(".", CountSlash(sourceFile) + 1) \o DottedImport

\* d/e/m.proto imports a/b/c.proto under the built-in rule alone: two levels
\* up, three dots.
C17_Witness ==
    /\ ipc = "resolved"
    /\ DOMAIN resolver.values = {GoogleProtobufPrefix}
    /\ sourceFile = "d/e/m.proto"
    /\ importFile = "a/b/c.proto"
    /\ prefixKey = None
    /\ importRef = "...a.b.c_pb"

\* The rule a/b/c.proto -> X was applied to the import a/b/c.proto, and the
\* reference returned still holds the whole imported path.
C16_Witness ==
    /\ ipc = "resolved"
    /\ importFile = "a/b/c.proto"
    /\ prefixKey = "a/b/c.proto"
    /\ resolver.values[prefixKey] = "X"
    /\ importRef = "X.a.b.c_pb"

\* The case of the specification: rules a/ -> X and a/b/ -> Y, importing
\* a/b/c.proto, gives Y.c_pb.
C3_Witness ==
    /\ ipc = "resolved"
    /\ importLibraries = [k \in {"a/", "a/b/"} |->
                             IF k = "a/" THEN "X" ELSE "Y"]
    /\ importFile = "a/b/c" \o DotProto
    /\ Cardinality(MatchingPrefixes) = 2
    /\ importRef = "Y.c_pb"

-----------------------------------------------------------------------------
(* Descriptors: the request's files, messages, enums and fields.           *)

TYPE_INT32 == "TYPE_INT32"
TYPE_INT64 == "TYPE_INT64"
TYPE_STRING == "TYPE_STRING"
TYPE_MESSAGE == "TYPE_MESSAGE"
TYPE_ENUM == "TYPE_ENUM"
LABEL_OPTIONAL == "LABEL_OPTIONAL"
LABEL_REQUIRED == "LABEL_REQUIRED"
LABEL_REPEATED == "LABEL_REPEATED"

\* A nil pointer, and the test for it.
Nil == [nil |-> TRUE]
IsNil(x) == "nil" \in DOMAIN x

\* FieldDescriptorProto; oneofIndex is -1 when OneofIndex is nil.
Field(name, number, label, type, typeName, oneofIndex) ==
    [name |-> name, number |-> number, label |-> label, type |-> type,
     typeName |-> typeName, oneofIndex |-> oneofIndex]

\* DescriptorProto; mapEntry is GetOptions().GetMapEntry().
Message(name, fields, nested, enums, oneofs, mapEntry) ==
    [name |-> name, field |-> fields, nestedType |-> nested, enumType |-> enums,
     oneofDecl |-> oneofs, mapEntry |-> mapEntry]

\* EnumDescriptorProto
Enum(name, values) == [name |-> name, value |-> values]

\* FileDescriptorProto; package is None when Package is nil.
File(name, package, deps, enums, msgs) ==
    [name |-> name, package |-> package, dependency |-> deps,
     enumType |-> enums, messageType |-> msgs]

\* DescriptorProto.GetMapFields
GetMapFields(msg) ==
    IF msg.mapEntry THEN <<msg.field[1], msg.field[2]>> ELSE <<Nil, Nil>>

-----------------------------------------------------------------------------
(* Type registry.                                                          *)

\* What the generator reads through a referType's file pointer.
FileRef(f) == [name |-> f.name, package |-> f.package]

\* What the generator reads through a referType's msg pointer: the name, the
\* map-entry option and the fields (GetMapFields).
MsgRef(msg) == [name |-> msg.name, mapEntry |-> msg.mapEntry, field |-> msg.field]

\* referType: the declaring file, the enclosing type and the descriptor.
ReferType(file, parent, enum, msg) ==
    [file |-> file, parent |-> parent, enum |-> enum, msg |-> msg]

\* referType.elementName
elementName(t) == IF ~IsNil(t.enum) THEN t.enum.name ELSE t.msg.name

\* referType.Name
RECURSIVE Name(_)
Name(t) ==
    IF ~IsNil(t.parent) THEN Name(t.parent) \o "." \o elementName(t)
    ELSE IF IsNil(t.file) \/ t.file.package = None THEN "." \o elementName(t)
    ELSE "." \o t.file.package \o "." \o elementName(t)

\* g.types[key] = t
PutType(reg, t) == (Name(t) :> t) @@ reg

\* resolveEnumTypes: one entry per enum of the list.
RECURSIVE resolveEnumTypes(_, _, _, _)
resolveEnumTypes(reg, enums, parent, file) ==
    IF enums = <<>> THEN reg
    ELSE resolveEnumTypes(PutType(reg, ReferType(file, parent, Head(enums), Nil)),
                          Tail(enums), parent, file)

\* A plausible slip: nested declarations are registered without their parent.
RECURSIVE resolveMessageTypesFlat(_, _, _, _)
resolveMessageTypesFlat(reg, msgs, parent, file) ==
    IF msgs = <<>> THEN reg
    ELSE LET msg == Head(msgs)
             t == ReferType(file, Nil, Nil, MsgRef(msg))
             r1 == PutType(reg, t)
             r2 == resolveEnumTypes(r1, msg.enumType, t, file)
             r3 == resolveMessageTypesFlat(r2, msg.nestedType, t, file)
         IN resolveMessageTypesFlat(r3, Tail(msgs), parent, file)

\* resolveMessageTypes: one entry per message, then its enums, then its
\* nested messages, each with the message as parent.
RECURSIVE resolveMessageTypes(_, _, _, _)
resolveMessageTypes(reg, msgs, parent, file) ==
    IF msgs = <<>> THEN reg
    ELSE LET msg == Head(msgs)
             t == ReferType(file, parent, Nil, MsgRef(msg))
             r1 == PutType(reg, t)
             r2 == resolveEnumTypes(r1, msg.enumType, t, file)
             r3 == resolveMessageTypes(r2, msg.nestedType, t, file)
         IN resolveMessageTypes(r3, Tail(msgs), parent, file)

\* A plausible slip: the pre-pass walks the first file of the request only.
resolveTypesFirstFileOnly(reg, files) ==
    IF files = <<>> THEN reg
    ELSE resolveMessageTypes(resolveEnumTypes(reg, Head(files).enumType, Nil,
                                              FileRef(Head(files))),
                             Head(files).messageType, Nil, FileRef(Head(files)))

\* resolveTypes: every file of the request, requested for generation or not.
RECURSIVE resolveTypes(_, _)
resolveTypes(reg, files) ==
    IF files = <<>> THEN reg
    ELSE LET f == Head(files)
             r1 == resolveEnumTypes(reg, f.enumType, Nil, FileRef(f))
             r2 == resolveMessageTypes(r1, f.messageType, Nil, FileRef(f))
         IN resolveTypes(r2, Tail(files))

\* lookupType
lookupType(reg, typ) ==
    IF typ \in DOMAIN reg THEN [ok |-> TRUE, t |-> reg[typ]] ELSE [ok |-> FALSE, t |-> Nil]

-----------------------------------------------------------------------------
(* Field classifier.                                                       *)

fieldTypeClassPrimitive == "Primitive"
fieldTypeClassList == "List"
fieldTypeClassMap == "Map"
fieldTypeClassObject == "Object"

\* fieldType
FieldType(class, field, t, keyType, valueType) ==
    [class |-> class, field |-> field, t |-> t, keyType |-> keyType, valueType |-> valueType]

\* A result with its error ("" : nil).
Ok(v) == [err |-> "", val |-> v]
Fail(e) == [err |-> e, val |-> Nil]

\* if err != nil { return err }: the rest runs on the value of a result
\* without error.
Bind(r, F(_)) == IF r.err # "" THEN r ELSE F(r.val)

\* A plausible slip: every repeated field is taken for a List.
RepeatedIsAlwaysList(field, t) == TRUE

\* The test of resolveFieldType that sends a repeated field to the List
\* branch: its kind is not message, or its type is a message without the
\* map-entry option.
IsListField(field, t) ==
    \/ field.type # TYPE_MESSAGE
    \/ (~IsNil(t.msg) /\ ~t.msg.mapEntry)

\* A plausible slip: the error of a failed lookup names neither the type nor
\* the field.
fieldTypeNotFoundAnonymous(field) == "failed to find fieldtype"

\* The error resolveFieldType returns for a type name missing from g.types.
fieldTypeNotFound(field) ==
    "failed to find fieldtype: " \o field.typeName \o " for field: " \o field.name

\* A plausible slip: a field of kind enum is classified as a field of kind
\* message is.
singularClassEnumAsObject(field) ==
    IF field.type \in {TYPE_MESSAGE, TYPE_ENUM} THEN fieldTypeClassObject
    ELSE fieldTypeClassPrimitive

\* The class resolveFieldType gives a field under the labels optional and
\* required: Object for the kind message, Primitive for every other kind.
singularClass(field) ==
    IF field.type = TYPE_MESSAGE THEN fieldTypeClassObject ELSE fieldTypeClassPrimitive

\* The label the switch of resolveFieldType is taken on.
EffectiveLabel(field, ignoreRepeated) ==
    IF ignoreRepeated /\ field.label = LABEL_REPEATED THEN LABEL_REQUIRED ELSE field.label

\* resolveFieldType; resolveFieldTypeOf is its part after the lookup, t being
\* the referType found (nil for a field of a scalar kind).
RECURSIVE resolveFieldType(_, _, _)
RECURSIVE resolveFieldTypeOf(_, _, _, _)
resolveFieldType(reg, field, ignoreRepeated) ==
    IF field.type = TYPE_MESSAGE \/ field.type = TYPE_ENUM
    THEN IF ~lookupType(reg, field.typeName).ok
         THEN Fail(fieldTypeNotFound(field))
         ELSE resolveFieldTypeOf(reg, field, lookupType(reg, field.typeName).t,
                                 EffectiveLabel(field, ignoreRepeated))
    ELSE resolveFieldTypeOf(reg, field, Nil, EffectiveLabel(field, ignoreRepeated))

resolveFieldTypeOf(reg, field, t, label) ==
    IF label \in {LABEL_OPTIONAL, LABEL_REQUIRED}
    THEN Ok(FieldType(singularClass(field), field, t, Nil, Nil))
    ELSE IF label = LABEL_REPEATED
    THEN IF IsListField(field, t)
         THEN Bind(resolveFieldType(reg, field, TRUE), LAMBDA valueField :
              Ok(FieldType(fieldTypeClassList, field, t, Nil, valueField)))
         ELSE IF IsNil(t.msg)
         THEN Fail("fieldtype was not a message: " \o Name(t) \o " for field: " \o field.name)
         ELSE Bind(resolveFieldType(reg, GetMapFields(t.msg)[1], FALSE), LAMBDA keyField :
              Bind(resolveFieldType(reg, GetMapFields(t.msg)[2], FALSE), LAMBDA valueField :
              Ok(FieldType(fieldTypeClassMap, field, t, keyField, valueField))))
    ELSE Fail("unknown field label: " \o field.label)

-----------------------------------------------------------------------------
(* Names and target types.                                                 *)

coreDurationMessage == ".google.protobuf.Duration"
coreTimestampMessage == ".google.protobuf.Timestamp"

reservedFieldNames == {"operator", "static", "class", "constructor", "interface"}

\* strings.ToUpper, character by character.
UpperOf(c) ==
    CASE c = "a" -> "A" [] c = "b" -> "B" [] c = "c" -> "C" [] c = "d" -> "D"
      [] c = "e" -> "E" [] c = "f" -> "F" [] c = "g" -> "G" [] c = "h" -> "H"
      [] c = "i" -> "I" [] c = "j" -> "J" [] c = "k" -> "K" [] c = "l" -> "L"
      [] c = "m" -> "M" [] c = "n" -> "N" [] c = "o" -> "O" [] c = "p" -> "P"
      [] c = "q" -> "Q" [] c = "r" -> "R" [] c = "s" -> "S" [] c = "t" -> "T"
      [] c = "u" -> "U" [] c = "v" -> "V" [] c = "w" -> "W" [] c = "x" -> "X"
      [] c = "y" -> "Y" [] c = "z" -> "Z" [] OTHER -> c

RECURSIVE ToUpper(_)
ToUpper(s) == IF s = "" THEN "" ELSE UpperOf(Head(s)) \o ToUpper(Tail(s))

\* A plausible slip: the prefix is put in front once.
uniqueNameOnce(name, namespace, prefix) ==
    IF name \in namespace THEN prefix \o name ELSE name

\* uniqueName: the prefix is put in front until the name is not in the set.
RECURSIVE uniqueName(_, _, _)
uniqueName(name, namespace, prefix) ==
    IF name \in namespace THEN uniqueName(prefix \o name, namespace, prefix) ELSE name

\* typeName: "." + strings.Join(append(typePath, name), ".")
typeName(name, typePath) == "." \o JoinWith(Append(typePath, name), ".")

\* toitClassName
toitClassName(typ, super) ==
    IF super = <<>> THEN typ ELSE JoinWith(super, "_") \o "_" \o typ

\* The loop of referType.ToitType: the enclosing types' names, the nearest
\* one first.
RECURSIVE ParentNames(_)
ParentNames(t) ==
    IF IsNil(t.parent) THEN <<>>
    ELSE <<elementName(t.parent)>> \o ParentNames(t.parent)

\* referType.ToitType
ToitType(t, importAlias) ==
    LET res == toitClassName(elementName(t), ParentNames(t)) IN
    IF importAlias = "" THEN res ELSE importAlias \o "." \o res

\* optionalType
optionalType(typ, optional) == IF optional THEN typ \o "?" ELSE typ

IntTypes ==
    {"TYPE_INT64", "TYPE_UINT64", "TYPE_INT32", "TYPE_UINT32", "TYPE_FIXED64",
     "TYPE_FIXED32", "TYPE_SFIXED32", "TYPE_SFIXED64", "TYPE_SINT32", "TYPE_SINT64"}
FloatTypes == {"TYPE_DOUBLE", "TYPE_FLOAT"}

\* The error of a missing entry of g.imports.
NoAlias(t) ==
    Fail("failed to find import alias for file: '" \o t.file.name \o "' - object: '"
         \o Name(t) \o "'")

\* FieldTypeToToitType
FieldTypeToToitType(ft, optional, inComment, t, opts, imps) ==
    IF ft \in FloatTypes THEN Ok(optionalType("float", optional))
    ELSE IF ft \in IntTypes THEN Ok(optionalType("int", optional))
    ELSE IF ft = "TYPE_BOOL" THEN Ok(optionalType("bool", optional))
    ELSE IF ft = TYPE_STRING THEN Ok(optionalType("string", optional))
    ELSE IF ft = "TYPE_BYTES" THEN Ok(optionalType("ByteArray", optional))
    ELSE IF ft = TYPE_MESSAGE
    THEN IF opts.CoreObjects /\ Name(t) = coreDurationMessage
         THEN Ok(optionalType("_core.Duration", optional))
         ELSE IF opts.CoreObjects /\ Name(t) = coreTimestampMessage
         THEN Ok(optionalType("_core.Time", optional))
         ELSE IF t.file.name \notin DOMAIN imps THEN NoAlias(t)
         ELSE Ok(optionalType(ToitType(t, imps[t.file.name]), optional))
    ELSE IF ft = TYPE_ENUM
    THEN IF t.file.name \notin DOMAIN imps THEN NoAlias(t)
         ELSE LET actual == optionalType("enum<" \o ToitType(t, imps[t.file.name]) \o ">",
                                         optional)
              IN IF inComment THEN Ok(actual)
                 ELSE Ok(optionalType("int", optional) \o "/*" \o actual \o "*/")
    ELSE Fail("unkonwn type: " \o ft)

\* fieldType.toitTypeAnnotation
RECURSIVE toitTypeAnnotation(_, _, _, _, _)
toitTypeAnnotation(f, optional, inComment, opts, imps) ==
    IF f.class \in {fieldTypeClassPrimitive, fieldTypeClassObject}
    THEN FieldTypeToToitType(f.field.type, optional, inComment, f.t, opts, imps)
    ELSE IF f.class = fieldTypeClassList
    THEN Bind(toitTypeAnnotation(f.valueType, FALSE, TRUE, opts, imps), LAMBDA v :
         IF inComment THEN Ok(optionalType("List<" \o v \o ">", optional))
         ELSE Ok(optionalType("List", optional) \o "/*<" \o v \o ">*/"))
    ELSE Bind(toitTypeAnnotation(f.keyType, FALSE, TRUE, opts, imps), LAMBDA k :
         Bind(toitTypeAnnotation(f.valueType, FALSE, TRUE, opts, imps), LAMBDA v :
         IF inComment
         THEN Ok(optionalType("Map<" \o k \o "," \o v \o ">", optional))
         ELSE Ok(optionalType("Map", optional) \o "/*<" \o k \o "," \o v \o ">*/")))

\* fieldType.ToitTypeAnnotation
ToitTypeAnnotation(f, optional, opts, imps) ==
    toitTypeAnnotation(f, optional, FALSE, opts, imps)

\* fieldType.DefaultValue
DefaultValue(f, opts, imps) ==
    IF f.class = fieldTypeClassPrimitive
    THEN IF f.field.type \in FloatTypes THEN Ok("0.0")
         ELSE IF f.field.type \in IntTypes THEN Ok("0")
         ELSE IF f.field.type = "TYPE_BOOL" THEN Ok("false")
         ELSE IF f.field.type = TYPE_STRING THEN Ok("\"\"")
         ELSE IF f.field.type = "TYPE_BYTES" THEN Ok("ByteArray 0")
         ELSE IF f.field.type = TYPE_ENUM THEN Ok("0")
         ELSE Fail("failed to find default value for object: " \o f.field.name
                   \o ", primitve: " \o f.field.type)
    ELSE IF f.class = fieldTypeClassObject
    THEN IF opts.CoreObjects /\ Name(f.t) = coreDurationMessage
         THEN Ok("_core.Duration.ZERO")
         ELSE IF opts.CoreObjects /\ Name(f.t) = coreTimestampMessage
         THEN Ok("_protobuf.TIME_ZERO_EPOCH")
         ELSE IF f.t.file.name \notin DOMAIN imps THEN NoAlias(f.t)
         ELSE Ok(ToitType(f.t, imps[f.t.file.name]))
    ELSE IF f.class = fieldTypeClassList THEN Ok("[]")
    ELSE Ok("{:}")

\* protobufTypeConst: PROTOBUF_TYPE_X for every kind TYPE_X but the group.
protobufTypeConst(ft) ==
    IF ft \in IntTypes \cup FloatTypes
             \cup {"TYPE_BOOL", TYPE_STRING, TYPE_MESSAGE, TYPE_ENUM, "TYPE_BYTES"}
    THEN Ok("PROTOBUF_" \o ft)
    ELSE Fail("unsupported protobuf type: " \o ft)

-----------------------------------------------------------------------------
(* Generator: the oneof accessor group.                                     *)

\* What the code writer is asked to emit inside a class.
Variable(name, type, default) ==
    [kind |-> "variable", name |-> name, type |-> type, value |-> default,
     params |-> <<>>, body |-> <<>>]
StaticConst(name, type, value) ==
    [kind |-> "static_const", name |-> name, type |-> type, value |-> value,
     params |-> <<>>, body |-> <<>>]
Function(name, params, ret, body) ==
    [kind |-> "function", name |-> name, type |-> ret, value |-> "",
     params |-> params, body |-> body]
Assignment(target, value) == [op |-> "assign", target |-> target, value |-> value]
Return(value) == [op |-> "return", target |-> "", value |-> value]

\* The key a range over a map takes next. Go leaves the order open: with n
\* keys left the runtime takes the rangeOrder[n]-th smallest, which gives
\* every order of the keys as rangeOrder varies.
NextNumber(numbers) ==
    LET n == Cardinality(numbers)
        r == IF n \in DOMAIN rangeOrder THEN rangeOrder[n] ELSE 1
    IN CHOOSE m \in numbers : Cardinality({ o \in numbers : o < m }) = r - 1

\* A plausible slip: the tag constants are emitted by a range over
\* res.CaseFields.
RECURSIVE ConstantsOfMap(_, _)
ConstantsOfMap(caseFields, numbers) ==
    IF numbers = {} THEN <<>>
    ELSE << StaticConst(ToUpper(caseFields[NextNumber(numbers)]), "int",
                        Itoa(NextNumber(numbers))) >>
         \o ConstantsOfMap(caseFields, numbers \ {NextNumber(numbers)})

OneofConstantsInMapOrder(res, members) ==
    ConstantsOfMap(res.CaseFields, DOMAIN res.CaseFields)

\* The fields of msg that belong to oneof number idx, in declaration order.
OneofMembers(msg, idx) == SelectSeq(msg.field, LAMBDA f : f.oneofIndex = idx)

\* The name under which writeOneof stores a member in CaseFields.
CaseFieldName(fieldName, member) ==
    uniqueName(fieldName \o member.name, reservedFieldNames, "_")

\* res.CaseFields after the first loop of writeOneof: field number -> name;
\* a later member with the same number replaces an earlier one.
CaseFieldsOf(fieldName, members) ==
    [n \in {members[i].number : i \in 1..Len(members)} |->
        CaseFieldName(fieldName,
                      members[CHOOSE i \in 1..Len(members) :
                                  /\ members[i].number = n
                                  /\ \A j \in (i + 1)..Len(members) : members[j].number # n])]

\* The oneofType writeOneof builds.
newOneofType(oneofName, members) ==
    [Descriptor |-> oneofName,
     FieldName |-> uniqueName(oneofName \o "_", reservedFieldNames, "_"),
     CaseGetter |-> uniqueName(oneofName \o "_oneof_case", reservedFieldNames, "_"),
     ClearFunction |-> uniqueName(oneofName \o "_oneof_clear", reservedFieldNames, "_"),
     CaseName |-> uniqueName(oneofName \o "_oneof_case", reservedFieldNames, "_") \o "_",
     CaseFields |-> CaseFieldsOf(uniqueName(oneofName \o "_", reservedFieldNames, "_"),
                                 members)]

\* A plausible slip: the clear operation forgets the discriminant.
ClearBodySlip(fieldName, caseName) == <<Assignment(fieldName, "null")>>

\* The body writeOneof gives the clear operation.
ClearBody(fieldName, caseName) ==
    <<Assignment(fieldName, "null"), Assignment(caseName, "null")>>

\* A plausible slip: the setter stores the value and leaves the discriminant.
SetterBodySlip(fieldName, caseName, param, constant) ==
    <<Assignment(fieldName, param)>>

\* The body writeOneof gives a member's setter.
SetterBody(fieldName, caseName, param, constant) ==
    <<Assignment(fieldName, param), Assignment(caseName, constant)>>

\* The getter and the setter of one member.
OneofAccessorPair(res, oneofName, fieldName, t) ==
    << Function(fieldName, <<>>, t, <<Return(res.FieldName)>>),
       Function(fieldName \o "=", <<[name |-> oneofName, type |-> t]>>, "none",
                SetterBody(res.FieldName, res.CaseName, oneofName, ToUpper(fieldName))) >>

\* The second loop of writeOneof: a getter and a setter per member.
RECURSIVE OneofAccessors(_, _, _, _, _, _)
OneofAccessors(reg, opts, imps, res, oneofName, members) ==
    IF members = <<>> THEN Ok(<<>>)
    ELSE Bind(resolveFieldType(reg, Head(members), FALSE), LAMBDA ft :
         Bind(ToitTypeAnnotation(ft, FALSE, opts, imps), LAMBDA t :
         Bind(OneofAccessors(reg, opts, imps, res, oneofName, Tail(members)), LAMBDA rest :
         Ok(OneofAccessorPair(res, oneofName, res.CaseFields[Head(members).number], t)
            \o rest))))

\* The first loop of writeOneof: one tag constant per member.
OneofConstants(res, members) ==
    [i \in 1..Len(members) |->
        StaticConst(ToUpper(CaseFieldName(res.FieldName, members[i])), "int",
                    Itoa(members[i].number))]

\* What writeOneof emits around the accessors.
OneofGroup(res, members, accessors) ==
    [oneof |-> res,
     members |->
         << Variable(res.FieldName, "", "null"),
            Variable(res.CaseName, "int?", "null"),
            Function(res.ClearFunction, <<>>, "none",
                     ClearBody(res.FieldName, res.CaseName)) >>
         \o OneofConstants(res, members)
         \o << Function(res.CaseGetter, <<>>, "int?", <<Return(res.CaseName)>>) >>
         \o accessors]

writeOneofOf(reg, opts, imps, res, oneofName, members) ==
    Bind(OneofAccessors(reg, opts, imps, res, oneofName, members), LAMBDA accessors :
    Ok(OneofGroup(res, members, accessors)))

\* writeOneof: the oneofType and the members emitted for it.
writeOneof(reg, opts, imps, msg, idx) ==
    writeOneofOf(reg, opts, imps,
                 newOneofType(msg.oneofDecl[idx + 1], OneofMembers(msg, idx)),
                 msg.oneofDecl[idx + 1], OneofMembers(msg, idx))

\* fieldType.FieldName
FieldName(f, oneofTypes) ==
    IF f.field.oneofIndex = -1
    THEN uniqueName(f.field.name, reservedFieldNames, "_")
    ELSE oneofTypes[f.field.oneofIndex + 1].CaseFields[f.field.number]

-----------------------------------------------------------------------------
(* Generator: the bodies of a class.                                       *)

\* A call the writer is asked to emit: the function, its arguments in order,
\* and the blocks passed to it, each with its parameter.
Call(fn, args, blocks) == [call |-> fn, args |-> args, blocks |-> blocks]
Block(param, body) == [param |-> param, body |-> body]

IsCoreDuration(opts, f) == opts.CoreObjects /\ Name(f.t) = coreDurationMessage
IsCoreTimestamp(opts, f) == opts.CoreObjects /\ Name(f.t) = coreTimestampMessage

\* writeReadFieldType
RECURSIVE writeReadFieldType(_, _, _, _, _)
writeReadFieldType(opts, imps, objectName, fieldName, f) ==
    IF f.class = fieldTypeClassList
    THEN Bind(protobufTypeConst(f.valueType.field.type), LAMBDA protoType :
         Bind(writeReadFieldType(opts, imps, objectName, fieldName \o "_value", f.valueType),
              LAMBDA elem :
         Ok(Call("r.read_array", <<"_protobuf." \o protoType, fieldName>>,
                 <<Block("", elem)>>))))
    ELSE IF f.class = fieldTypeClassMap
    THEN Bind(writeReadFieldType(opts, imps, objectName, fieldName \o "_key", f.keyType),
              LAMBDA key :
         Bind(writeReadFieldType(opts, imps, objectName, fieldName \o "_value", f.valueType),
              LAMBDA value :
         Ok(Call("r.read_map", <<fieldName>>, <<Block("", key), Block("", value)>>))))
    ELSE IF f.class = fieldTypeClassObject
    THEN IF IsCoreTimestamp(opts, f)
         THEN Ok(Call("_protobuf.deserialize_timestamp", <<"r">>, <<>>))
         ELSE IF IsCoreDuration(opts, f)
         THEN Ok(Call("_protobuf.deserialize_duration", <<"r">>, <<>>))
         ELSE IF f.t.file.name \notin DOMAIN imps
         THEN Fail("failed to find import alias for field: '" \o f.t.file.name
                   \o "' - field: '" \o Name(f.t) \o "'")
         ELSE IF opts.ConvertHooks
         THEN Ok(Call(ToitType(f.t, imps[f.t.file.name]) \o ".deserialize_into",
                      <<"r", objectName \o "._initialize_" \o fieldName>>, <<>>))
         ELSE Ok(Call(ToitType(f.t, imps[f.t.file.name]) \o ".deserialize", <<"r">>, <<>>))
    ELSE Bind(protobufTypeConst(f.field.type), LAMBDA protoType :
         Ok(Call("r.read_primitive", <<"_protobuf." \o protoType>>, <<>>)))

\* writeReadFieldAssignment: the read is handed to the field's hook, or
\* assigned to the field.
ReadFieldEntry(opts, objectName, f, fieldName, read) ==
    [tag |-> Itoa(f.field.number),
     field |-> f.field.name,
     hook |-> IF opts.ConvertHooks /\ f.class # fieldTypeClassObject
              THEN objectName \o "._deserialize_" \o fieldName ELSE "",
     assignTo |-> IF opts.ConvertHooks /\ f.class # fieldTypeClassObject THEN ""
                  ELSE IF objectName # "" THEN objectName \o "." \o fieldName
                  ELSE fieldName,
     read |-> read]

\* writeReadFieldCall / writeReadFieldAssignment: the entry of the
\* deserializing body for one field.
writeReadFieldCall(opts, imps, objectName, f, oneofTypes) ==
    Bind(writeReadFieldType(opts, imps, objectName, FieldName(f, oneofTypes), f),
         LAMBDA read :
    Ok(ReadFieldEntry(opts, objectName, f, FieldName(f, oneofTypes), read)))

\* writeDeserializeBody: one r.read_field per field, in declaration order.
RECURSIVE writeDeserializeBody(_, _, _, _, _)
writeDeserializeBody(opts, imps, objectName, fields, oneofTypes) ==
    IF fields = <<>> THEN Ok(<<>>)
    ELSE Bind(writeReadFieldCall(opts, imps, objectName, Head(fields), oneofTypes),
              LAMBDA one :
         Bind(writeDeserializeBody(opts, imps, objectName, Tail(fields), oneofTypes),
              LAMBDA rest :
         Ok(<<one>> \o rest)))

\* writeSerializeNamedArguments
writeSerializeNamedArguments(asField, oneof) ==
    (IF asField # None THEN <<"--as_field=" \o asField>> ELSE <<>>)
    \o (IF oneof THEN <<"--oneof">> ELSE <<>>)

\* getSerializeFieldName
getSerializeFieldName(opts, fieldName, oneofFieldName, collectionField) ==
    IF ~opts.ConvertHooks THEN fieldName
    ELSE IF collectionField # None
    THEN "(_serialize_" \o collectionField \o "_"
         \o (IF oneofFieldName # None THEN oneofFieldName ELSE fieldName) \o " "
         \o (IF oneofFieldName # None THEN oneofFieldName ELSE fieldName) \o ")"
    ELSE "_serialize_" \o (IF oneofFieldName # None THEN oneofFieldName ELSE fieldName)

\* writeSerializeList, writeSerializeMap, writeSerializeMessage and
\* writeSerializePrimitive, with the field name and number writeSerializeField
\* settled.
RECURSIVE writeSerializeClass(_, _, _, _, _, _, _)
writeSerializeClass(opts, imps, f, fieldName, asField, oneofFieldName, collectionField) ==
    IF f.class = fieldTypeClassList
    THEN Bind(protobufTypeConst(f.valueType.field.type), LAMBDA protoType :
         Bind(ToitTypeAnnotation(f.valueType, FALSE, opts, imps), LAMBDA toitType :
         Bind(writeSerializeClass(opts, imps, f.valueType, "value", None, None, fieldName),
              LAMBDA elem :
         Ok(Call("w.write_array",
                 <<"_protobuf." \o protoType,
                   getSerializeFieldName(opts, fieldName, oneofFieldName, None)>>
                 \o writeSerializeNamedArguments(asField, oneofFieldName # None),
                 <<Block("value/" \o toitType, elem)>>)))))
    ELSE IF f.class = fieldTypeClassMap
    THEN Bind(protobufTypeConst(f.keyType.field.type), LAMBDA keyProtoType :
         Bind(ToitTypeAnnotation(f.keyType, FALSE, opts, imps), LAMBDA keyToitType :
         Bind(protobufTypeConst(f.valueType.field.type), LAMBDA valueProtoType :
         Bind(ToitTypeAnnotation(f.valueType, FALSE, opts, imps), LAMBDA valueToitType :
         Bind(writeSerializeClass(opts, imps, f.keyType, "key", None, None, fieldName),
              LAMBDA key :
         Bind(writeSerializeClass(opts, imps, f.valueType, "value", None, None, fieldName),
              LAMBDA value :
         Ok(Call("w.write_map",
                 <<"_protobuf." \o keyProtoType, "_protobuf." \o valueProtoType,
                   getSerializeFieldName(opts, fieldName, oneofFieldName, None)>>
                 \o writeSerializeNamedArguments(asField, oneofFieldName # None),
                 <<Block("key/" \o keyToitType, key),
                   Block("value/" \o valueToitType, value)>>))))))))
    ELSE IF f.class = fieldTypeClassObject
    THEN IF IsCoreTimestamp(opts, f)
         THEN Ok(Call("_protobuf.serialize_timestamp",
                      <<fieldName, "w">>
                      \o writeSerializeNamedArguments(asField, oneofFieldName # None), <<>>))
         ELSE IF IsCoreDuration(opts, f)
         THEN Ok(Call("_protobuf.serialize_duration",
                      <<fieldName, "w">>
                      \o writeSerializeNamedArguments(asField, oneofFieldName # None), <<>>))
         ELSE Ok(Call(getSerializeFieldName(opts, fieldName, oneofFieldName, collectionField)
                        \o ".serialize",
                      <<"w">> \o writeSerializeNamedArguments(asField, oneofFieldName # None),
                      <<>>))
    ELSE Bind(protobufTypeConst(f.field.type), LAMBDA protoType :
         Ok(Call("w.write_primitive",
                 <<"_protobuf." \o protoType,
                   getSerializeFieldName(opts, fieldName, oneofFieldName, collectionField)>>
                 \o writeSerializeNamedArguments(asField, oneofFieldName # None),
                 <<>>)))

\* writeSerializeField: without a field name, the field's own name and
\* number are used.
writeSerializeField(opts, imps, f, fieldName, asField, oneofFieldName, collectionField) ==
    IF fieldName = ""
    THEN writeSerializeClass(opts, imps, f,
                             uniqueName(f.field.name, reservedFieldNames, "_"),
                             Itoa(f.field.number), oneofFieldName, collectionField)
    ELSE writeSerializeClass(opts, imps, f, fieldName, asField, oneofFieldName,
                             collectionField)

\* writeSerializeOneofField: the write of a member, under the test of the
\* discriminant against the member's tag constant.
writeSerializeOneofField(opts, imps, f, oneof, fieldName) ==
    Bind(writeSerializeField(opts, imps, f, oneof.FieldName,
                             ToUpper(oneof.CaseFields[f.field.number]), fieldName, None),
         LAMBDA write :
    Ok([field |-> f.field.name, caseName |-> oneof.CaseName,
        constant |-> ToUpper(oneof.CaseFields[f.field.number]), write |-> write]))

\* The entry of the serialize body for one field.
writeSerializeEntry(opts, imps, f, oneofTypes) ==
    IF f.field.oneofIndex # -1
    THEN writeSerializeOneofField(opts, imps, f, oneofTypes[f.field.oneofIndex + 1],
                                  FieldName(f, oneofTypes))
    ELSE Bind(writeSerializeField(opts, imps, f, "", None, None, None), LAMBDA write :
         Ok([field |-> f.field.name, caseName |-> "", constant |-> "", write |-> write]))

\* writeSerializeMethod: after the message header, the fields in
\* declaration order.
RECURSIVE writeSerializeMethod(_, _, _, _)
writeSerializeMethod(opts, imps, fields, oneofTypes) ==
    IF fields = <<>> THEN Ok(<<>>)
    ELSE Bind(writeSerializeEntry(opts, imps, Head(fields), oneofTypes), LAMBDA one :
         Bind(writeSerializeMethod(opts, imps, Tail(fields), oneofTypes), LAMBDA rest :
         Ok(<<one>> \o rest)))

\* The name writeNumFieldsSetMethod and writeProtobufSizeField read a field
\* by: with convert hooks, through the field's serialize hook.
SerializedName(opts, name) == IF opts.ConvertHooks THEN "_serialize_" \o name ELSE name

\* One term of num_fields_set: the field counts when the test is false.
Condition(field, subject, test, operand) ==
    [field |-> field, subject |-> subject, test |-> test, operand |-> operand]

\* The test writeNumFieldsSetMethod emits for a field that is not a oneof
\* member.
NumFieldsSetCondition(opts, imps, f, fieldName) ==
    IF f.class \in {fieldTypeClassList, fieldTypeClassMap}
    THEN Ok(Condition(f.field.name, fieldName, "is_empty", ""))
    ELSE IF f.class = fieldTypeClassObject
    THEN IF IsCoreDuration(opts, f)
         THEN Ok(Condition(f.field.name, fieldName, "is_zero", ""))
         ELSE IF IsCoreTimestamp(opts, f)
         THEN Ok(Condition(f.field.name, fieldName, "_protobuf.time_is_zero_epoch", ""))
         ELSE Ok(Condition(f.field.name, fieldName, "is_empty", ""))
    ELSE IF f.field.type \in {TYPE_STRING, "TYPE_BYTES"}
    THEN Ok(Condition(f.field.name, fieldName, "is_empty", ""))
    ELSE Bind(DefaultValue(f, opts, imps), LAMBDA defaultValue :
         Ok(Condition(f.field.name, fieldName, "==", defaultValue)))

\* The second loop of writeNumFieldsSetMethod: oneof members are skipped.
RECURSIVE NumFieldsSetFields(_, _, _)
NumFieldsSetFields(opts, imps, fields) ==
    IF fields = <<>> THEN Ok(<<>>)
    ELSE IF Head(fields).field.oneofIndex # -1
    THEN NumFieldsSetFields(opts, imps, Tail(fields))
    ELSE Bind(NumFieldsSetCondition(opts, imps, Head(fields),
                  SerializedName(opts, uniqueName(Head(fields).field.name,
                                                  reservedFieldNames, "_"))),
              LAMBDA one :
         Bind(NumFieldsSetFields(opts, imps, Tail(fields)), LAMBDA rest :
         Ok(<<one>> \o rest)))

\* The first loop of writeNumFieldsSetMethod: the discriminant of each oneof
\* group against null.
NumFieldsSetOneofs(oneofTypes) ==
    [i \in 1..Len(oneofTypes) |->
        Condition(oneofTypes[i].Descriptor, oneofTypes[i].CaseName, "==", "null")]

\* writeNumFieldsSetMethod: one term per oneof group, then one per field
\* that is not a oneof member.
writeNumFieldsSetMethod(opts, imps, fields, oneofTypes) ==
    IF fields = <<>> THEN Ok(<<>>)
    ELSE Bind(NumFieldsSetFields(opts, imps, fields), LAMBDA rest :
         Ok(NumFieldsSetOneofs(oneofTypes) \o rest))

\* A plausible slip: the size term ignores the core_objects option.
protobufSizeObjectCallGeneric(opts, f) == "_protobuf.size_embedded_message"

\* The helper writeProtobufSizeField calls for an embedded object.
protobufSizeObjectCall(opts, f) ==
    IF IsCoreDuration(opts, f) THEN "_protobuf.size_duration"
    ELSE IF IsCoreTimestamp(opts, f) THEN "_protobuf.size_timestamp"
    ELSE "_protobuf.size_embedded_message"

\* writeProtobufSizeField, with the name the field is read by.
protobufSizeCall(opts, f, fieldName, asField) ==
    IF f.class = fieldTypeClassList
    THEN Bind(protobufTypeConst(f.valueType.field.type), LAMBDA protoType :
         Ok(Call("_protobuf.size_array",
                 <<"_protobuf." \o protoType, fieldName, asField>>, <<>>)))
    ELSE IF f.class = fieldTypeClassMap
    THEN Bind(protobufTypeConst(f.keyType.field.type), LAMBDA keyProtoType :
         Bind(protobufTypeConst(f.valueType.field.type), LAMBDA valueProtoType :
         Ok(Call("_protobuf.size_map",
                 <<"_protobuf." \o keyProtoType, "_protobuf." \o valueProtoType,
                   fieldName, asField>>, <<>>))))
    ELSE IF f.class = fieldTypeClassObject
    THEN IF protobufSizeObjectCall(opts, f) = "_protobuf.size_embedded_message"
         THEN Ok(Call("_protobuf.size_embedded_message",
                      <<"(" \o fieldName \o ".protobuf_size)", asField>>, <<>>))
         ELSE Ok(Call(protobufSizeObjectCall(opts, f), <<fieldName, asField>>, <<>>))
    ELSE Bind(protobufTypeConst(f.field.type), LAMBDA protoType :
         Ok(Call("_protobuf.size_primitive",
                 <<"_protobuf." \o protoType, fieldName, asField>>, <<>>)))

\* A plausible slip: a repeated field is sized element by element, as a
\* primitive of its declared kind.
writeProtobufSizeFieldAsPrimitive(opts, f, oneofTypes) ==
    IF f.class \in {fieldTypeClassList, fieldTypeClassMap}
    THEN Bind(protobufTypeConst(f.field.type), LAMBDA protoType :
         Ok(Call("_protobuf.size_primitive",
                 <<"_protobuf." \o protoType, SerializedName(opts, FieldName(f, oneofTypes)),
                   "--as_field=" \o Itoa(f.field.number)>>, <<>>)))
    ELSE protobufSizeCall(opts, f, SerializedName(opts, FieldName(f, oneofTypes)),
                          "--as_field=" \o Itoa(f.field.number))

\* writeProtobufSizeField
writeProtobufSizeField(opts, f, oneofTypes) ==
    protobufSizeCall(opts, f, SerializedName(opts, FieldName(f, oneofTypes)),
                     "--as_field=" \o Itoa(f.field.number))

\* The term of protobuf_size for one field: the term of a oneof member is
\* guarded by the test of the discriminant against its tag constant.
SizeTerm(f, oneofTypes, size) ==
    IF f.field.oneofIndex # -1
    THEN [field |-> f.field.name,
          caseName |-> oneofTypes[f.field.oneofIndex + 1].CaseName,
          constant |-> ToUpper(oneofTypes[f.field.oneofIndex + 1].CaseFields[f.field.number]),
          size |-> size]
    ELSE [field |-> f.field.name, caseName |-> "", constant |-> "", size |-> size]

\* writeProtobufSizeMethod: one term per field in declaration order.
RECURSIVE writeProtobufSizeMethod(_, _, _)
writeProtobufSizeMethod(opts, fields, oneofTypes) ==
    IF fields = <<>> THEN Ok(<<>>)
    ELSE Bind(writeProtobufSizeField(opts, Head(fields), oneofTypes), LAMBDA size :
         Bind(writeProtobufSizeMethod(opts, Tail(fields), oneofTypes), LAMBDA rest :
         Ok(<<SizeTerm(Head(fields), oneofTypes, size)>> \o rest)))

\* A plausible slip: the test of the guard is inverted.
ConstructorParameterInverted(fieldName, t) ==
    [name |-> "--" \o fieldName, type |-> t, default |-> "null",
     guard |-> fieldName \o " == null",
     assign |-> Assignment("this." \o fieldName, fieldName)]

\* One named parameter of the default constructor, defaulting to null, with
\* the guarded assignment its value gets.
ConstructorParameter(fieldName, t) ==
    [name |-> "--" \o fieldName, type |-> t, default |-> "null",
     guard |-> fieldName \o " != null",
     assign |-> Assignment("this." \o fieldName, fieldName)]

\* writeDefaultConstructor: without constructor_initializers no parameter and
\* no statement; with it one parameter per field in declaration order.
RECURSIVE writeDefaultConstructor(_, _, _, _)
writeDefaultConstructor(opts, imps, fields, oneofTypes) ==
    IF ~opts.ConstructorInitializers \/ fields = <<>> THEN Ok(<<>>)
    ELSE Bind(ToitTypeAnnotation(Head(fields), TRUE, opts, imps), LAMBDA t :
         Bind(writeDefaultConstructor(opts, imps, Tail(fields), oneofTypes), LAMBDA rest :
         Ok(<<ConstructorParameter(FieldName(Head(fields), oneofTypes), t)>> \o rest)))

-----------------------------------------------------------------------------
(* Generator: the convert hooks of a class.                                *)

\* writeInitializeObjectMethod
writeInitializeObjectMethod(opts, imps, f, methodSuffix) ==
    Bind(ToitTypeAnnotation(f, FALSE, opts, imps), LAMBDA t :
    Bind(DefaultValue(f, opts, imps), LAMBDA defaultValue :
    Ok(<<Function("_initialize_" \o methodSuffix, <<>>, t, <<Return(defaultValue)>>)>>)))

\* writeDeserializeFieldMethod
writeDeserializeFieldMethod(opts, imps, f, methodSuffix, inCollection, oneofTypes) ==
    Bind(ToitTypeAnnotation(f, FALSE, opts, imps), LAMBDA t :
    IF inCollection
    THEN Ok(<<Function("_deserialize_" \o methodSuffix, <<[name |-> "in", type |-> t]>>,
                       "any", <<Return("in")>>)>>)
    ELSE Ok(<<Function("_deserialize_" \o methodSuffix, <<[name |-> "in", type |-> t]>>,
                       "", <<Assignment(FieldName(f, oneofTypes), "in")>>)>>))

\* writeSerializeFieldMethod
writeSerializeFieldMethod(opts, imps, f, methodSuffix, inCollection, oneofTypes) ==
    Bind(ToitTypeAnnotation(f, FALSE, opts, imps), LAMBDA t :
    IF inCollection
    THEN Ok(<<Function("_serialize_" \o methodSuffix, <<[name |-> "in", type |-> "any"]>>,
                       t, <<Return("in")>>)>>)
    ELSE Ok(<<Function("_serialize_" \o methodSuffix, <<>>, t,
                       <<Return(FieldName(f, oneofTypes))>>)>>))

\* writeFieldConvertHooks
RECURSIVE writeFieldConvertHooks(_, _, _, _, _, _)
writeFieldConvertHooks(opts, imps, f, methodSuffix, inCollection, oneofTypes) ==
    IF f.class = fieldTypeClassList
    THEN Bind(writeDeserializeFieldMethod(opts, imps, f, methodSuffix, FALSE, oneofTypes),
              LAMBDA d :
         Bind(writeSerializeFieldMethod(opts, imps, f, methodSuffix, FALSE, oneofTypes),
              LAMBDA s :
         Bind(writeFieldConvertHooks(opts, imps, f.valueType, methodSuffix \o "_value",
                                     TRUE, oneofTypes), LAMBDA v :
         Ok(d \o s \o v))))
    ELSE IF f.class = fieldTypeClassMap
    THEN Bind(writeDeserializeFieldMethod(opts, imps, f, methodSuffix, FALSE, oneofTypes),
              LAMBDA d :
         Bind(writeSerializeFieldMethod(opts, imps, f, methodSuffix, FALSE, oneofTypes),
              LAMBDA s :
         Bind(writeFieldConvertHooks(opts, imps, f.keyType, methodSuffix \o "_key",
                                     TRUE, oneofTypes), LAMBDA k :
         Bind(writeFieldConvertHooks(opts, imps, f.valueType, methodSuffix \o "_value",
                                     TRUE, oneofTypes), LAMBDA v :
         Ok(d \o s \o k \o v)))))
    ELSE IF f.class = fieldTypeClassObject
    THEN Bind(writeInitializeObjectMethod(opts, imps, f, methodSuffix), LAMBDA i :
         Bind(writeSerializeFieldMethod(opts, imps, f, methodSuffix, inCollection,
                                        oneofTypes), LAMBDA s :
         Ok(i \o s)))
    ELSE Bind(writeDeserializeFieldMethod(opts, imps, f, methodSuffix, inCollection,
                                          oneofTypes), LAMBDA d :
         Bind(writeSerializeFieldMethod(opts, imps, f, methodSuffix, inCollection,
                                        oneofTypes), LAMBDA s :
         Ok(d \o s)))

\* writeClassConvertHooks
RECURSIVE writeClassConvertHooks(_, _, _, _)
writeClassConvertHooks(opts, imps, fields, oneofTypes) ==
    IF fields = <<>> THEN Ok(<<>>)
    ELSE Bind(writeFieldConvertHooks(opts, imps, Head(fields),
                                     FieldName(Head(fields), oneofTypes), FALSE, oneofTypes),
              LAMBDA one :
         Bind(writeClassConvertHooks(opts, imps, Tail(fields), oneofTypes), LAMBDA rest :
         Ok(one \o rest)))

-----------------------------------------------------------------------------
(* Generator: a message, a file, the run.                                  *)

\* The constants writeEnum emits.
EnumClass(enum, tn, className) ==
    [kind |-> "enum", typeName |-> tn, name |-> className,
     members |-> [i \in 1..Len(enum.value) |->
                     StaticConst(toitClassName(enum.value[i].name, <<className>>),
                                 "int/*enum<" \o className \o ">*/",
                                 Itoa(enum.value[i].number))]]

\* writeEnum
writeEnum(reg, enum, typePath) ==
    IF ~lookupType(reg, typeName(enum.name, typePath)).ok
    THEN Fail("failed to find local enum type: " \o typeName(enum.name, typePath))
    ELSE Ok(<<EnumClass(enum, typeName(enum.name, typePath),
                        ToitType(lookupType(reg, typeName(enum.name, typePath)).t, ""))>>)

RECURSIVE writeEnums(_, _, _)
writeEnums(reg, enums, typePath) ==
    IF enums = <<>> THEN Ok(<<>>)
    ELSE Bind(writeEnum(reg, Head(enums), typePath), LAMBDA one :
         Bind(writeEnums(reg, Tail(enums), typePath), LAMBDA rest :
         Ok(one \o rest)))

\* The checks writeMessage makes on one member of a oneof: the tag
\* constant, the getter, the setter.
CheckCaseField(definedNames, fieldName) ==
    IF ToUpper(fieldName) \in definedNames
    THEN Fail("name clash for for oneof constant: " \o ToUpper(fieldName))
    ELSE IF fieldName \in definedNames
    THEN Fail("name clash for for oneof getter: " \o fieldName)
    ELSE IF (fieldName \o "=") \in definedNames
    THEN Fail("name clash for for oneof setter: " \o fieldName \o "=")
    ELSE Ok(definedNames \cup {ToUpper(fieldName), fieldName, fieldName \o "="})

\* for _, fieldName := range oneofType.CaseFields, the keys taken in the
\* order the runtime chose.
RECURSIVE CheckCaseFields(_, _, _)
CheckCaseFields(definedNames, caseFields, numbers) ==
    IF numbers = {} THEN Ok(definedNames)
    ELSE Bind(CheckCaseField(definedNames, caseFields[NextNumber(numbers)]), LAMBDA names :
         CheckCaseFields(names, caseFields, numbers \ {NextNumber(numbers)}))

\* The checks writeMessage makes on one oneof group, and the names it adds
\* to definedNames.
CheckOneofNames(definedNames, oneofType) ==
    IF oneofType.FieldName \in definedNames
    THEN Fail("name clash for for oneof field: " \o oneofType.FieldName)
    ELSE IF oneofType.CaseName \in definedNames
    THEN Fail("name clash for for oneof case field: " \o oneofType.CaseName)
    ELSE IF oneofType.CaseGetter \in definedNames
    THEN Fail("name clash for for oneof case getter: " \o oneofType.CaseGetter)
    ELSE CheckCaseFields(definedNames \cup {oneofType.FieldName, oneofType.CaseGetter,
                                            oneofType.CaseName},
                         oneofType.CaseFields, DOMAIN oneofType.CaseFields)

\* What writeMessage holds while it writes a class: definedNames, the
\* oneofTypes and fields collected, the members emitted.
ClassScope(definedNames, oneofTypes, fields, members) ==
    [definedNames |-> definedNames, oneofTypes |-> oneofTypes, fields |-> fields,
     members |-> members]

\* The first loop of writeMessage's class body: for i := range msg.GetOneofDecl().
RECURSIVE WriteOneofs(_, _, _, _, _, _)
WriteOneofs(reg, opts, imps, msg, idx, acc) ==
    IF idx >= Len(msg.oneofDecl) THEN Ok(acc)
    ELSE Bind(writeOneof(reg, opts, imps, msg, idx), LAMBDA one :
         Bind(CheckOneofNames(acc.definedNames, one.oneof), LAMBDA names :
         WriteOneofs(reg, opts, imps, msg, idx + 1,
                     ClassScope(names, Append(acc.oneofTypes, one.oneof), <<>>,
                                acc.members \o one.members))))

\* The second loop: for _, field := range msg.GetField().
RECURSIVE WriteFields(_, _, _, _, _)
WriteFields(reg, opts, imps, fields, acc) ==
    IF fields = <<>> THEN Ok(acc)
    ELSE Bind(resolveFieldType(reg, Head(fields), FALSE), LAMBDA ft :
         IF Head(fields).oneofIndex # -1
         THEN WriteFields(reg, opts, imps, Tail(fields),
                          [acc EXCEPT !.fields = Append(@, ft)])
         ELSE IF uniqueName(Head(fields).name, reservedFieldNames, "_") \in acc.definedNames
         THEN Fail("name clash for for field: "
                   \o uniqueName(Head(fields).name, reservedFieldNames, "_"))
         ELSE Bind(ToitTypeAnnotation(ft, FALSE, opts, imps), LAMBDA t :
              Bind(DefaultValue(ft, opts, imps), LAMBDA defaultValue :
              WriteFields(reg, opts, imps, Tail(fields),
                  ClassScope(acc.definedNames
                                 \cup {uniqueName(Head(fields).name, reservedFieldNames, "_")},
                             acc.oneofTypes, Append(acc.fields, ft),
                             Append(acc.members,
                                    Variable(uniqueName(Head(fields).name,
                                                        reservedFieldNames, "_"),
                                             t, defaultValue)))))))

\* The methods writeMessage emits after the fields. deserialize holds the
\* r.read_field entries the deserialize constructor runs: its own, or with
\* convert hooks those of deserialize_into, to which it hands over.
writeMethods(opts, imps, tn, className, scope) ==
    Bind(IF opts.ConvertHooks
         THEN writeDeserializeBody(opts, imps, "obj", scope.fields, scope.oneofTypes)
         ELSE Ok(<<>>), LAMBDA into :
    Bind(writeDefaultConstructor(opts, imps, scope.fields, scope.oneofTypes),
         LAMBDA constructor :
    Bind(IF opts.ConvertHooks THEN Ok(into)
         ELSE writeDeserializeBody(opts, imps, "", scope.fields, scope.oneofTypes),
         LAMBDA deserialize :
    Bind(IF opts.ConvertHooks
         THEN writeClassConvertHooks(opts, imps, scope.fields, scope.oneofTypes)
         ELSE Ok(<<>>), LAMBDA hooks :
    Bind(writeSerializeMethod(opts, imps, scope.fields, scope.oneofTypes),
         LAMBDA serialize :
    Bind(writeNumFieldsSetMethod(opts, imps, scope.fields, scope.oneofTypes),
         LAMBDA numFieldsSet :
    Bind(writeProtobufSizeMethod(opts, scope.fields, scope.oneofTypes),
         LAMBDA protobufSize :
    Ok(<<[kind |-> "class", typeName |-> tn, name |-> className,
          members |-> scope.members,
          oneofTypes |-> scope.oneofTypes,
          constructor |-> constructor,
          deserialize |-> deserialize,
          hooks |-> hooks,
          serialize |-> serialize,
          numFieldsSet |-> numFieldsSet,
          protobufSize |-> protobufSize]>>))))))))

\* The class of one message: everything writeMessage emits between
\* StartClass and EndClass.
writeClass(reg, opts, imps, msg, tn, className) ==
    Bind(WriteOneofs(reg, opts, imps, msg, 0, ClassScope({}, <<>>, <<>>, <<>>)),
         LAMBDA oneofs :
    Bind(WriteFields(reg, opts, imps, msg.field, oneofs), LAMBDA scope :
    writeMethods(opts, imps, tn, className, scope)))

\* A plausible slip: the class of the message is written before what is
\* nested in it.
MessageOutputClassFirst(enums, nested, classes) == classes \o enums \o nested

\* What writeMessage writes, in order: the nested enums, the nested
\* messages, the class of the message.
MessageOutput(enums, nested, classes) == enums \o nested \o classes

\* writeMessage: the nested enums, the nested messages that are not map
\* entries, then the class of the message.
RECURSIVE writeMessage(_, _, _, _, _)
RECURSIVE writeMessages(_, _, _, _, _)
writeMessage(reg, opts, imps, msg, typePath) ==
    IF ~lookupType(reg, typeName(msg.name, typePath)).ok
    THEN Fail("failed to find local msg type: " \o typeName(msg.name, typePath))
    ELSE Bind(writeEnums(reg, msg.enumType, Append(typePath, msg.name)), LAMBDA enums :
         Bind(writeMessages(reg, opts, imps,
                            SelectSeq(msg.nestedType, LAMBDA m : ~m.mapEntry),
                            Append(typePath, msg.name)), LAMBDA nested :
         Bind(writeClass(reg, opts, imps, msg, typeName(msg.name, typePath),
                         ToitType(lookupType(reg, typeName(msg.name, typePath)).t, "")),
              LAMBDA classes :
         Ok(MessageOutput(enums, nested, classes)))))

writeMessages(reg, opts, imps, msgs, typePath) ==
    IF msgs = <<>> THEN Ok(<<>>)
    ELSE Bind(writeMessage(reg, opts, imps, Head(msgs), typePath), LAMBDA one :
         Bind(writeMessages(reg, opts, imps, Tail(msgs), typePath), LAMBDA rest :
         Ok(one \o rest)))

\* toit.ToSnakeCase on the file names of the requests below: they are made
\* of lower-case letters and underscores, which the conversion leaves as
\* they are.
ToSnakeCase(s) == s

\* fileImportAlias
fileImportAlias(f) == ToSnakeCase("_" \o TrimSuffix(Base(f), Ext(f)))

\* The loop of generateFile over file.GetDependency(): g.imports after it and
\* the import lines written. importNames stays {"_protobuf", "_core"}.
RECURSIVE ImportDependencies(_, _, _, _, _)
ImportDependencies(r, fileName, deps, imps, lines) ==
    IF deps = <<>> THEN [imports |-> imps, lines |-> lines]
    ELSE ImportDependencies(r, fileName, Tail(deps),
             (Head(deps) :> uniqueName(fileImportAlias(Head(deps)),
                                       {"_protobuf", "_core"}, "_")) @@ imps,
             Append(lines,
                    [library |-> resolveImport(r, fileName, Head(deps)),
                     alias |-> uniqueName(fileImportAlias(Head(deps)),
                                          {"_protobuf", "_core"}, "_")]))

\* g.imports and the import lines after the "create imports" part of
\* generateFile.
createImports(r, imps, file) ==
    ImportDependencies(r, file.name, file.dependency, (file.name :> "") @@ imps,
                       <<[library |-> "encoding.protobuf", alias |-> "_protobuf"],
                         [library |-> "core", alias |-> "_core"]>>)

\* The part of generateFile after the imports: the enums, then the messages.
writeFile(reg, opts, imps, lines, file, typePath) ==
    Bind(writeEnums(reg, file.enumType, typePath), LAMBDA enums :
    Bind(writeMessages(reg, opts, imps, file.messageType, typePath), LAMBDA msgs :
    Ok([name |-> protoToFile(file.name), source |-> file.name, imports |-> lines,
        content |-> enums \o msgs])))

\* generateFile: the file or the error it returns.
generateFile(r, reg, opts, imps, file) ==
    writeFile(reg, opts, createImports(r, imps, file).imports,
              createImports(r, imps, file).lines, file,
              IF file.package # None THEN <<file.package>> ELSE <<>>)

constructorInitializersParam == "constructor_initializers"
importLibraryParam == "import_library"
convertHooksParam == "convert_hooks"
coreObjectsParam == "core_objects"

\* strings.SplitN(element, kvSep, 2) for a one-character separator.
SplitN2(element, kvSep) ==
    IF IndexOf(element, kvSep) = 0 THEN <<element>>
    ELSE <<SubSeq(element, 1, IndexOf(element, kvSep) - 1),
           SubSeq(element, IndexOf(element, kvSep) + 1, Len(element))>>

\* The loop of parseMap: a later element replaces an earlier one with the
\* same key; an element without the separator is dropped.
RECURSIVE parseMapElements(_, _, _)
parseMapElements(groupkv, kvSep, res) ==
    IF groupkv = <<>> THEN res
    ELSE parseMapElements(Tail(groupkv), kvSep,
                          IF Len(SplitN2(Head(groupkv), kvSep)) > 1
                          THEN (SplitN2(Head(groupkv), kvSep)[1]
                                    :> SplitN2(Head(groupkv), kvSep)[2]) @@ res
                          ELSE res)

\* parseMap
parseMap(in, groupSep, kvSep) == parseMapElements(Split(in, groupSep), kvSep, <<>>)

\* strconv.ParseBool
ParseBool(str) ==
    IF str \in {"1", "t", "T", "TRUE", "true", "True"} THEN Ok(TRUE)
    ELSE IF str \in {"0", "f", "F", "FALSE", "false", "False"} THEN Ok(FALSE)
    ELSE Fail("strconv.ParseBool: parsing \"" \o str \o "\": invalid syntax")

\* A plausible slip: a value that does not parse leaves the default.
ParseOptionLenient(params, param, default) ==
    IF param \notin DOMAIN params \/ ParseBool(params[param]).err # "" THEN Ok(default)
    ELSE ParseBool(params[param])

\* One boolean option of parseGeneratorOptions.
ParseOption(params, param, default) ==
    IF param \notin DOMAIN params THEN Ok(default)
    ELSE IF ParseBool(params[param]).err # ""
    THEN Fail("failed to parse '" \o param \o "' option reason: "
              \o ParseBool(params[param]).err)
    ELSE ParseBool(params[param])

\* parseGeneratorOptions
parseGeneratorOptions(params) ==
    Bind(ParseOption(params, constructorInitializersParam, FALSE), LAMBDA ci :
    Bind(ParseOption(params, convertHooksParam, FALSE), LAMBDA ch :
    Bind(ParseOption(params, coreObjectsParam, TRUE), LAMBDA co :
    Ok([ConstructorInitializers |-> ci,
        ConvertHooks |-> ch,
        CoreObjects |-> co,
        ImportLibraries |-> IF importLibraryParam \in DOMAIN params
                            THEN parseMap(params[importLibraryParam], ",", "=")
                            ELSE <<>>]))))

-----------------------------------------------------------------------------
(* One run of the plugin: main, Run, newGenerator, Generate.               *)

\* The most fields the message M of a request declares.
MaxFields == 2

Int32Field(name, number) == Field(name, number, LABEL_OPTIONAL, TYPE_INT32, "", -1)

DurationFile ==
    File("google/protobuf/duration.proto", "google.protobuf", <<>>, <<>>,
         << Message("Duration",
                    << Field("seconds", 1, LABEL_OPTIONAL, TYPE_INT64, "", -1),
                       Int32Field("nanos", 2) >>,
                    <<>>, <<>>, <<>>, FALSE) >>)

TimestampFile ==
    File("google/protobuf/timestamp.proto", "google.protobuf", <<>>, <<>>,
         << Message("Timestamp",
                    << Field("seconds", 1, LABEL_OPTIONAL, TYPE_INT64, "", -1),
                       Int32Field("nanos", 2) >>,
                    <<>>, <<>>, <<>>, FALSE) >>)

\* u.proto: no package, one empty message.
UFile == File("u.proto", None, <<>>, <<>>, << Message("U", <<>>, <<>>, <<>>, <<>>, FALSE) >>)

\* d/t.proto: no package; an enum E; a message T that nests N, which nests a
\* message D and an enum K.
TFile ==
    File("d/t.proto", None, << "u.proto" >>,
         << Enum("E", << [name |-> "E_ZERO", number |-> 0],
                         [name |-> "E_ONE", number |-> 1] >>) >>,
         << Message("T",
                    << Int32Field("a", 1),
                       Field("u", 2, LABEL_OPTIONAL, TYPE_MESSAGE, ".U", -1) >>,
                    << Message("N", <<>>,
                               << Message("D", << Int32Field("b", 1) >>,
                                          <<>>, <<>>, <<>>, FALSE) >>,
                               << Enum("K", << [name |-> "K_ZERO", number |-> 0] >>) >>,
                               <<>>, FALSE) >>,
                    <<>>, <<>>, FALSE) >>)

\* The fields the message M of m.proto (package p) is drawn from, in
\* declaration order.  12, 13, 14, 19 and 21 are the members of the oneof "value".
FieldPool ==
    << Int32Field("id", 1),
       Field("name", 2, LABEL_OPTIONAL, TYPE_STRING, "", -1),
       Field("tags", 3, LABEL_REPEATED, TYPE_STRING, "", -1),
       Field("kids", 4, LABEL_REPEATED, TYPE_MESSAGE, ".p.M.N", -1),
       Field("x", 5, LABEL_REPEATED, TYPE_MESSAGE, ".p.M.XEntry", -1),
       Field("dur", 6, LABEL_OPTIONAL, TYPE_MESSAGE, coreDurationMessage, -1),
       Field("ts", 7, LABEL_OPTIONAL, TYPE_MESSAGE, coreTimestampMessage, -1),
       Field("t", 8, LABEL_OPTIONAL, TYPE_MESSAGE, ".T", -1),
       Field("e", 9, LABEL_OPTIONAL, TYPE_ENUM, ".E", -1),
       Field("u", 10, LABEL_OPTIONAL, TYPE_MESSAGE, ".U", -1),
       Field("bad", 11, LABEL_OPTIONAL, TYPE_MESSAGE, ".p.Missing", -1),
       Field("i", 12, LABEL_OPTIONAL, TYPE_INT32, "", 0),
       Field("s", 13, LABEL_OPTIONAL, TYPE_STRING, "", 0),
       Field("gone", 14, LABEL_OPTIONAL, TYPE_MESSAGE, ".p.Gone", 0),
       Int32Field("value_oneof_clear", 15),
       Int32Field("value_oneof_case", 16),
       Int32Field("class", 17),
       Int32Field("_class", 18),
       Field("d", 19, LABEL_OPTIONAL, TYPE_MESSAGE, coreDurationMessage, 0),
       Field("lost", 20, LABEL_OPTIONAL, TYPE_ENUM, ".p.Lost", -1),
       Field("I", 21, LABEL_OPTIONAL, TYPE_INT32, "", 0) >>

\* The map-entry message protoc synthesises for the map field x.
XEntry ==
    Message("XEntry",
            << Field("key", 1, LABEL_OPTIONAL, TYPE_STRING, "", -1),
               Int32Field("value", 2) >>,
            <<>>, <<>>, <<>>, TRUE)

\* The fields of the pool with the numbers in S, in declaration order.
RECURSIVE FieldsOf(_)
FieldsOf(S) ==
    IF S = {} THEN <<>>
    ELSE LET n == CHOOSE m \in S : \A o \in S : m <= o
         IN <<FieldPool[n]>> \o FieldsOf(S \ {n})

\* m.proto with the message M declaring the fields numbered in S.
MFile(S) ==
    File("m.proto", "p",
         << "google/protobuf/duration.proto", "google/protobuf/timestamp.proto",
            "d/t.proto" >>,
         <<>>,
         << Message("M", FieldsOf(S),
                    << Message("N", << Int32Field("a", 1) >>, <<>>, <<>>, <<>>, FALSE) >>
                        \o (IF 5 \in S THEN << XEntry >> ELSE <<>>),
                    <<>>,
                    IF S \cap {12, 13, 14, 19, 21} # {} THEN << "value" >> ELSE <<>>,
                    FALSE) >>)

\* The parameter string and the files to generate of a request.
RunPool ==
    { [parameter |-> "", fileToGenerate |-> {"m.proto"}],
      [parameter |-> "core_objects=false", fileToGenerate |-> {"m.proto"}],
      [parameter |-> "convert_hooks=true;constructor_initializers=1",
       fileToGenerate |-> {"m.proto"}],
      [parameter |-> "import_library=d/=lib", fileToGenerate |-> {"m.proto"}],
      [parameter |-> "core_objects=maybe", fileToGenerate |-> {"m.proto"}],
      [parameter |-> "constructor_initializers=yes", fileToGenerate |-> {"m.proto"}],
      [parameter |-> "core_objects=0;convert_hooks=2", fileToGenerate |-> {"m.proto"}],
      [parameter |-> "convert_hooks=;core_objects=no", fileToGenerate |-> {"m.proto"}],
      [parameter |-> "import_library=d/=lib;import_library=e/=other",
       fileToGenerate |-> {"m.proto"}],
      [parameter |-> "import_library=d/=lib,import_library=e/=other",
       fileToGenerate |-> {"m.proto"}],
      [parameter |-> "import_library=d/=lib,e/=other", fileToGenerate |-> {"m.proto"}],
      [parameter |-> "", fileToGenerate |-> {"d/t.proto", "m.proto"}] }

Requests ==
    { [parameter |-> r.parameter, fileToGenerate |-> r.fileToGenerate,
       protoFile |-> << DurationFile, TimestampFile, UFile, TFile, MFile(S) >>] :
        r \in RunPool,
        S \in { T \in SUBSET (1..Len(FieldPool)) : Cardinality(T) <= MaxFields } }

Init ==
    /\ RangeAscending
    /\ req \in Requests
    /\ options = Nil
    /\ types = <<>>
    /\ imports = <<>>
    /\ fileIdx = 0
    /\ resp = Nil
    /\ err = ""
    /\ stdout = <<>>
    /\ pc = "main"
    /\ importLibraries = <<>>
    /\ resolver = [keys |-> <<>>, values |-> <<>>]
    /\ sourceFile = None /\ importFile = None /\ prefixKey = None /\ importRef = None
    /\ ipc = "idle"
    /\ cls = Nil /\ object = <<>> /\ lastCall = Nil /\ opc = "idle" /\ given = <<>>
    /\ callStack = <<>> /\ returned = [nil |-> TRUE] /\ cpc = "idle"
    /\ WriterIdle
    /\ UniqueIdle

\* The orders a range over a map of up to MaxFields keys can take.
RangeOrders == { f \in [1..MaxFields -> 1..MaxFields] : \A n \in 1..MaxFields : f[n] <= n }

\* Run up to the call of Generate: parseMap, parseGeneratorOptions,
\* newGenerator.  newImportResolver stores the built-in rule in the map the
\* options hold.  The runtime settles the order of this run's map ranges.
NewGenerator ==
    /\ pc = "main"
    /\ IF parseGeneratorOptions(parseMap(req.parameter, ";", "=")).err # ""
       THEN /\ err' = parseGeneratorOptions(parseMap(req.parameter, ";", "=")).err
            /\ pc' = "returned"
            /\ UNCHANGED <<options, importLibraries, resolver>>
       ELSE /\ importLibraries'
                 = parseGeneratorOptions(parseMap(req.parameter, ";", "=")).val.ImportLibraries
            /\ resolver' = newImportResolver(importLibraries')
            /\ options' = [parseGeneratorOptions(parseMap(req.parameter, ";", "=")).val
                              EXCEPT !.ImportLibraries = resolver'.values]
            /\ pc' = "generate"
            /\ err' = ""
    /\ types' = <<>>
    /\ imports' = <<>>
    /\ rangeOrder' \in RangeOrders
    /\ UNCHANGED <<req, fileIdx, resp, stdout, sourceFile, importFile, prefixKey, importRef, ipc,
                   ovars, cvars, wvars, uvars>>

\* Generate up to its loop: g.resolveTypes(), res := &CodeGeneratorResponse{}.
ResolveTypes ==
    /\ pc = "generate"
    /\ types' = resolveTypes(types, req.protoFile)
    /\ resp' = [file |-> <<>>]
    /\ fileIdx' = 0
    /\ pc' = "loop"
    /\ UNCHANGED <<ivars, ovars, req, options, imports, err, stdout, cvars, wvars, uvars, rangeOrder>>

\* A plausible slip: the files generated so far are returned with the error.
GenerateKeepsPartial(res, r) ==
    IF r.err # "" THEN [resp |-> res, err |-> r.err]
    ELSE [resp |-> [file |-> Append(res.file, r.val)], err |-> ""]

\* What Generate does with the result of generateFile: return nil and the
\* error, or append the file to the response.
GenerateAppend(res, r) ==
    IF r.err # "" THEN [resp |-> Nil, err |-> r.err]
    ELSE [resp |-> [file |-> Append(res.file, r.val)], err |-> ""]

\* One iteration of Generate's loop over g.req.ProtoFile. generateFile
\* writes g.imports before anything can fail.  The runtime settles anew the
\* order the next range over a map takes.
GenerateFile ==
    /\ pc = "loop"
    /\ fileIdx < Len(req.protoFile)
    /\ IF req.protoFile[fileIdx + 1].name \in req.fileToGenerate
       THEN /\ imports' = createImports(resolver, imports, req.protoFile[fileIdx + 1]).imports
            /\ resp' = GenerateAppend(resp, generateFile(resolver, types, options, imports,
                                                         req.protoFile[fileIdx + 1])).resp
            /\ err' = GenerateAppend(resp, generateFile(resolver, types, options, imports,
                                                        req.protoFile[fileIdx + 1])).err
            /\ pc' = IF err' # "" THEN "returned" ELSE "loop"
       ELSE UNCHANGED <<imports, resp, err, pc>>
    /\ fileIdx' = fileIdx + 1
    /\ rangeOrder' \in RangeOrders
    /\ UNCHANGED <<ivars, ovars, req, options, types, stdout, cvars, wvars, uvars>>

\* The loop is over: return res, nil.
GenerateReturns ==
    /\ pc = "loop"
    /\ fileIdx = Len(req.protoFile)
    /\ pc' = "returned"
    /\ UNCHANGED <<ivars, ovars, req, options, types, imports, fileIdx, resp, err, stdout, cvars, wvars, uvars, rangeOrder>>

\* A plausible slip: main writes whatever Run returned.
mainWritesAnyway(e) == TRUE

\* main's test after generator.Run: it writes the response unless err != nil.
mainWrites(e) == e = ""

\* main after generator.Run: panic(err), or marshal the response and write
\* it to os.Stdout.
Main ==
    /\ pc = "returned"
    /\ IF mainWrites(err)
       THEN /\ stdout' = Append(stdout, resp)
            /\ pc' = "exited"
       ELSE /\ pc' = "panicked"
            /\ UNCHANGED stdout
    /\ UNCHANGED <<ivars, ovars, req, options, types, imports, fileIdx, resp, err, cvars, wvars, uvars, rangeOrder>>

Next == NewGenerator \/ ResolveTypes \/ GenerateFile \/ GenerateReturns \/ Main

Spec == Init /\ [][Next]_vars

-----------------------------------------------------------------------------
(* One object of a generated class: the emitted members are run against    *)
(* the object's fields.                                                    *)

\* The largest integer a caller stores in the object.
MaxInt == 1

\* The values of the target language: null, an integer (its decimal
\* numeral), a string.
Null == [t |-> "null", v |-> ""]
IntV(numeral) == [t |-> "int", v |-> numeral]
StrV(str) == [t |-> "string", v |-> str]

\* The value of a literal the generator writes: null, "" or a numeral.
Literal(expr) ==
    IF expr = "null" THEN Null
    ELSE IF expr = "\"\"" THEN StrV("")
    ELSE IntV(expr)

Members(c, kind) == { c.members[k] : k \in { j \in 1..Len(c.members) : c.members[j].kind = kind } }

\* The value of an identifier inside a method of the class: a parameter, a
\* static constant, a field of the object, or a getter (a function that
\* returns a field).
Eval(c, obj, env, expr) ==
    IF expr \in DOMAIN env THEN env[expr]
    ELSE IF \E m \in Members(c, "static_const") : m.name = expr
    THEN Literal((CHOOSE m \in Members(c, "static_const") : m.name = expr).value)
    ELSE IF expr \in DOMAIN obj THEN obj[expr]
    ELSE IF \E m \in Members(c, "function") : m.name = expr /\ m.params = <<>>
    THEN LET m == CHOOSE m \in Members(c, "function") : m.name = expr /\ m.params = <<>>
         IN obj[m.body[1].value]
    ELSE Literal(expr)

\* The statements of a method body, run in order.
RECURSIVE Exec(_, _, _, _)
Exec(c, obj, env, body) ==
    IF body = <<>> THEN obj
    ELSE LET st == Head(body) IN
         IF st.op = "assign"
         THEN Exec(c, [obj EXCEPT ![st.target] = Eval(c, obj, env, st.value)], env, Tail(body))
         ELSE Exec(c, obj, env, Tail(body))

\* The object a constructor without arguments leaves: every field holds the
\* default the class declares for it.
NewObject(c) ==
    [n \in { m.name : m \in Members(c, "variable") } |->
        Literal((CHOOSE m \in Members(c, "variable") : m.name = n).value)]

\* What a caller can pass for a parameter of the given type.
ValuesOf(type) ==
    IF type = "int" THEN { IntV(Itoa(n)) : n \in 0..MaxInt }
    ELSE { StrV(""), StrV("a") }

\* num_fields_set: the sum of (test ? 0 : 1) over the terms the generator
\* wrote.
RECURSIVE NumFieldsSet(_, _, _)
NumFieldsSet(c, obj, terms) ==
    IF terms = <<>> THEN 0
    ELSE LET e == Head(terms)
             subject == Eval(c, obj, <<>>, e.subject)
             holds == IF e.test = "==" THEN subject = Literal(e.operand)
                      ELSE subject.v = ""
         IN (IF holds THEN 0 ELSE 1) + NumFieldsSet(c, obj, Tail(terms))

\* The terms of protobuf_size that are evaluated: every term of a field that
\* is no oneof member, and the term of the oneof member the discriminant
\* names.  Each is the call _protobuf.size_primitive TYPE value --as_field=N,
\* given here by its wire type and its value.
SizeCalls(c, obj) ==
    { [field |-> c.protobufSize[k].field,
       type |-> c.protobufSize[k].size.args[1],
       value |-> Eval(c, obj, <<>>, c.protobufSize[k].size.args[2])] :
        k \in { j \in 1..Len(c.protobufSize) :
                    \/ c.protobufSize[j].caseName = ""
                    \/ Eval(c, obj, <<>>, c.protobufSize[j].caseName)
                         = Eval(c, obj, <<>>, c.protobufSize[j].constant) } }

\* What _protobuf.size_primitive can be, as far as this model needs it: for
\* each wire type and value, whether the size it returns is nonzero.  The
\* same call gives the same answer whatever the field number.
SizedInputs ==
    { [type |-> "_protobuf.PROTOBUF_TYPE_INT32", value |-> v] : v \in ValuesOf("int") }
        \cup { [type |-> "_protobuf.PROTOBUF_TYPE_STRING", value |-> v] : v \in ValuesOf("string") }
SizePrimitives == [SizedInputs -> BOOLEAN]

\* The fields o.proto's message M is drawn from: id, name and the members i
\* and s of the oneof value.
ObjectFields == {1, 2, 12, 13}

OFile(S) ==
    File("o.proto", "p", <<>>, <<>>,
         << Message("M", FieldsOf(S), <<>>, <<>>,
                    IF S \cap {12, 13} # {} THEN << "value" >> ELSE <<>>, FALSE) >>)

\* The options of a run without parameter.
DefaultOptions == parseGeneratorOptions(parseMap("", ";", "=")).val

\* The options of a run with constructor_initializers=1.
InitializerOptions == parseGeneratorOptions(parseMap("constructor_initializers=1", ";", "=")).val

\* The class the generator emits for M under the given options.
ClassWith(opts, S) ==
    generateFile(newImportResolver(opts.ImportLibraries),
                 resolveTypes(<<>>, << OFile(S) >>), opts, <<>>,
                 OFile(S)).val.content[1]

\* The class the generator emits for M, with the default options.
ClassOf(S) == ClassWith(DefaultOptions, S)

\* The test of a guard "name != null" on the arguments of the call.
GuardHolds(env, guard) ==
    IF Split(guard, " ")[2] = "!="
    THEN env[Split(guard, " ")[1]] # Literal(Split(guard, " ")[3])
    ELSE env[Split(guard, " ")[1]] = Literal(Split(guard, " ")[3])

\* this.name = value: the setter name= of the class if it declares one,
\* the field otherwise.
AssignThis(c, obj, env, st) ==
    LET name == TrimPrefix(st.target, "this.") IN
    IF \E m \in Members(c, "function") : m.name = name \o "="
    THEN LET m == CHOOSE m \in Members(c, "function") : m.name = name \o "="
         IN Exec(c, obj, (m.params[1].name :> Eval(c, obj, env, st.value)), m.body)
    ELSE [obj EXCEPT ![name] = Eval(c, obj, env, st.value)]

\* The body of the default constructor: the guarded assignments in the order
\* of the parameters.
RECURSIVE ExecConstructor(_, _, _, _)
ExecConstructor(c, obj, env, params) ==
    IF params = <<>> THEN obj
    ELSE ExecConstructor(c,
                         IF GuardHolds(env, Head(params).guard)
                         THEN AssignThis(c, obj, env, Head(params).assign)
                         ELSE obj,
                         env, Tail(params))

\* The name of a parameter without its dashes, and the type without its
\* question mark.
ParameterName(p) == TrimPrefix(p.name, "--")
ParameterType(p) == TrimSuffix(p.type, "?")

\* What a caller can pass to the default constructor: for each parameter a
\* value of its type, or nothing, which gives the parameter its default.
ConstructorArguments(c) ==
    { args \in [ { ParameterName(c.constructor[k]) : k \in 1..Len(c.constructor) }
                   -> ValuesOf("int") \cup ValuesOf("string") \cup {Null} ] :
        \A k \in 1..Len(c.constructor) :
            args[ParameterName(c.constructor[k])]
                \in ValuesOf(ParameterType(c.constructor[k]))
                        \cup {Literal(c.constructor[k].default)} }

\* The setters the constructor ran, in order.
SettersRun(c, args) ==
    SelectSeq([k \in 1..Len(c.constructor) |->
                  [kind |-> "set", name |-> ParameterName(c.constructor[k]) \o "=",
                   arg |-> args[ParameterName(c.constructor[k])]]],
              LAMBDA s : /\ s.arg # Null
                         /\ \E m \in Members(c, "function") : m.name = s.name)

InitObject ==
    /\ RangeAscending
    /\ options \in {DefaultOptions, InitializerOptions}
    /\ cls \in { ClassWith(options, S) : S \in SUBSET ObjectFields }
    /\ object = <<>>
    /\ lastCall = Nil
    /\ given = <<>>
    /\ opc = "start"
    /\ importLibraries = <<>>
    /\ resolver = [keys |-> <<>>, values |-> <<>>]
    /\ sourceFile = None /\ importFile = None /\ prefixKey = None /\ importRef = None
    /\ ipc = "idle"
    /\ req = Nil /\ types = <<>> /\ imports = <<>> /\ fileIdx = 0
    /\ resp = Nil /\ err = "" /\ stdout = <<>> /\ pc = "idle"
    /\ callStack = <<>> /\ returned = [nil |-> TRUE] /\ cpc = "idle"
    /\ WriterIdle
    /\ UniqueIdle

\* M or M --id=1 --value_s="a": the default constructor.  The fields get
\* their declared defaults, then the body of the constructor runs; a setter
\* it ran is the last operation called on the object.
Construct ==
    /\ opc = "start"
    /\ \E args \in ConstructorArguments(cls) :
          /\ given' = args
          /\ object' = ExecConstructor(cls, NewObject(cls), args, cls.constructor)
          /\ lastCall' = IF SettersRun(cls, args) = <<>>
                         THEN [kind |-> "new", name |-> "", arg |-> Null]
                         ELSE SettersRun(cls, args)[Len(SettersRun(cls, args))]
    /\ opc' = "ready"
    /\ UNCHANGED <<cls, ivars, gvars, cvars, wvars, uvars, rangeOrder>>

\* A call of a member's setter, e.g. value_i= 1.
CallSetter ==
    /\ opc = "ready"
    /\ \E m \in { f \in Members(cls, "function") : f.params # <<>> } :
       \E v \in ValuesOf(m.params[1].type) :
          /\ object' = Exec(cls, object, (m.params[1].name :> v), m.body)
          /\ lastCall' = [kind |-> "set", name |-> m.name, arg |-> v]
    /\ UNCHANGED <<cls, given, opc, ivars, gvars, cvars, wvars, uvars, rangeOrder>>

\* A call of a oneof's clear operation, e.g. value_oneof_clear.
CallClear ==
    /\ opc = "ready"
    /\ \E k \in 1..Len(cls.oneofTypes) :
          LET m == CHOOSE f \in Members(cls, "function") :
                       f.name = cls.oneofTypes[k].ClearFunction
          IN /\ object' = Exec(cls, object, <<>>, m.body)
             /\ lastCall' = [kind |-> "clear", name |-> m.name, arg |-> Null]
    /\ UNCHANGED <<cls, given, opc, ivars, gvars, cvars, wvars, uvars, rangeOrder>>

\* An assignment to a field that is no oneof slot, e.g. id = 1.
AssignField ==
    /\ opc = "ready"
    /\ \E m \in { f \in Members(cls, "variable") : f.type \in {"int", "string"} } :
       \E v \in ValuesOf(m.type) :
          object' = [object EXCEPT ![m.name] = v]
    /\ UNCHANGED <<cls, lastCall, given, opc, ivars, gvars, cvars, wvars, uvars, rangeOrder>>

NextObject == Construct \/ CallSetter \/ CallClear \/ AssignField

SpecObject == InitObject /\ [][NextObject]_vars

-----------------------------------------------------------------------------
(* Properties of a generated object.                                       *)

\* The value of the tag constant the class declares for the member with
\* field number n of oneof group o.
TagOf(o, n) == Eval(cls, object, <<>>, ToUpper(o.CaseFields[n]))

\* The members of group o whose tag constant the discriminant holds.
LiveMembers(o) == { n \in DOMAIN o.CaseFields : object[o.CaseName] = TagOf(o, n) }

\* C1: in an object of a class with a oneof group, after construction and
\* any setter and clear calls, at most one member is live; the discriminant
\* is null exactly when no setter was called since construction or the last
\* clear, and the storage slot is then null too; otherwise the discriminant
\* is the tag constant of the setter called last and the storage slot holds
\* that setter's argument.
C1_OneLiveMember ==
    opc = "ready" =>
        \A k \in 1..Len(cls.oneofTypes) :
            /\ Cardinality(LiveMembers(cls.oneofTypes[k])) <= 1
            /\ (object[cls.oneofTypes[k].CaseName] = Null)
                   <=> (lastCall.kind \in {"new", "clear"})
            /\ lastCall.kind \in {"new", "clear"}
                   => object[cls.oneofTypes[k].FieldName] = Null
            /\ lastCall.kind = "set"
                   => \E n \in DOMAIN cls.oneofTypes[k].CaseFields :
                         /\ lastCall.name = cls.oneofTypes[k].CaseFields[n] \o "="
                         /\ object[cls.oneofTypes[k].CaseName] = TagOf(cls.oneofTypes[k], n)
                         /\ LiveMembers(cls.oneofTypes[k]) = {n}
                         /\ object[cls.oneofTypes[k].FieldName] = lastCall.arg

\* The setter of s was called last on an object of the class with the
\* members i and s: the discriminant holds VALUE_S and the slot the argument.
C1_Witness ==
    /\ opc = "ready"
    /\ Len(cls.oneofTypes) = 1
    /\ DOMAIN cls.oneofTypes[1].CaseFields = {12, 13}
    /\ lastCall.kind = "set" /\ lastCall.name = "value_s=" /\ lastCall.arg = StrV("a")
    /\ object["value_oneof_case_"] = IntV("13")
    /\ object["value_"] = StrV("a")

\* The number of fields, each oneof group once, whose term of protobuf_size
\* is nonzero when size_primitive is lib.
NonzeroSizeTerms(lib) ==
    Cardinality({ c \in SizeCalls(cls, object) : lib[[type |-> c.type, value |-> c.value]] })

\* C2: for every object, num_fields_set equals the number of fields, each
\* oneof group counted once, whose term of protobuf_size is nonzero, also
\* when a oneof member is set to its zero value - for some behaviour of the
\* library's size_primitive.
C2_CountMatchesSize ==
    opc = "ready" =>
        \E lib \in SizePrimitives :
            NumFieldsSet(cls, object, cls.numFieldsSet) = NonzeroSizeTerms(lib)

\* An object with id = 0 whose oneof member i is set to 0: num_fields_set
\* counts the oneof group and not id, while protobuf_size sizes both by the
\* same call.
C2_Witness ==
    /\ opc = "ready"
    /\ "id" \in DOMAIN object /\ object["id"] = IntV("0")
    /\ "value_" \in DOMAIN object /\ object["value_"] = IntV("0")
    /\ object["value_oneof_case_"] = IntV("12")
    /\ NumFieldsSet(cls, object, cls.numFieldsSet) = 1
    /\ \A lib \in SizePrimitives : NonzeroSizeTerms(lib) \in {0, 2}

-----------------------------------------------------------------------------
(* Properties of a run.                                                    *)

\* The files of the response Generate holds or returned.
ResponseFiles == IF IsNil(resp) THEN <<>> ELSE resp.file

\* The classes of the response.
GeneratedClasses ==
    UNION { { ResponseFiles[i].content[k] :
                k \in { j \in 1..Len(ResponseFiles[i].content) :
                            ResponseFiles[i].content[j].kind = "class" } } :
            i \in 1..Len(ResponseFiles) }

\* The fields the descriptor of class c declares, in declaration order.
DeclaredFields(c) == types[c.typeName].msg.field

\* The field is repeated and its declared type is a message with the
\* map-entry option and two fields.
IsMapDecl(f) ==
    /\ f.label = LABEL_REPEATED
    /\ f.type = TYPE_MESSAGE
    /\ f.typeName \in DOMAIN types
    /\ ~IsNil(types[f.typeName].msg)
    /\ types[f.typeName].msg.mapEntry
    /\ Len(types[f.typeName].msg.field) = 2

\* C4: a field is classified Map exactly when it is repeated and its type is
\* a map-entry message; every other repeated field is classified List; a map
\* field is read, written and sized with read_map, write_map and size_map
\* over a key and a value, a list with read_array, write_array and
\* size_array.
C4_MapIffMapEntry ==
    \A c \in GeneratedClasses :
        \A i \in 1..Len(DeclaredFields(c)) :
            /\ (resolveFieldType(types, DeclaredFields(c)[i], FALSE).val.class
                    = fieldTypeClassMap) <=> IsMapDecl(DeclaredFields(c)[i])
            /\ (DeclaredFields(c)[i].label = LABEL_REPEATED
                    /\ ~IsMapDecl(DeclaredFields(c)[i]))
                   => /\ resolveFieldType(types, DeclaredFields(c)[i], FALSE).val.class
                             = fieldTypeClassList
                      /\ c.deserialize[i].read.call = "r.read_array"
                      /\ c.serialize[i].write.call = "w.write_array"
                      /\ c.protobufSize[i].size.call = "_protobuf.size_array"
            /\ IsMapDecl(DeclaredFields(c)[i])
                   => /\ c.deserialize[i].read.call = "r.read_map"
                      /\ Len(c.deserialize[i].read.blocks) = 2
                      /\ c.serialize[i].write.call = "w.write_map"
                      /\ Len(c.serialize[i].write.blocks) = 2
                      /\ c.protobufSize[i].size.call = "_protobuf.size_map"
            /\ ~IsMapDecl(DeclaredFields(c)[i])
                   => /\ c.deserialize[i].read.call # "r.read_map"
                      /\ c.serialize[i].write.call # "w.write_map"
                      /\ c.protobufSize[i].size.call # "_protobuf.size_map"

\* A run has written the class M with the list field kids and the map field x.
C4_Witness ==
    /\ pc = "exited"
    /\ \E c \in GeneratedClasses :
          /\ c.name = "M"
          /\ Len(c.deserialize) = 2
          /\ c.deserialize[1].field = "kids" /\ c.deserialize[1].read.call = "r.read_array"
          /\ c.deserialize[2].field = "x" /\ c.deserialize[2].read.call = "r.read_map"
          /\ c.protobufSize[2].size.call = "_protobuf.size_map"

\* "." + package, when the file has one.
PackagePrefix(file) == IF file.package = None THEN "" ELSE "." \o file.package

\* The enums declared in a list: for each its fully-qualified name, the
\* declaring file and the names of the enclosing messages, outermost first.
DeclaredEnums(enums, fileName, prefix, chain) ==
    { [name |-> prefix \o "." \o enums[i].name, file |-> fileName, chain |-> chain,
       own |-> enums[i].name, kind |-> "enum"] : i \in 1..Len(enums) }

\* The messages declared in a list, with the enums and messages nested in
\* them at any depth.
RECURSIVE DeclaredMessages(_, _, _, _)
DeclaredMessages(msgs, fileName, prefix, chain) ==
    UNION { { [name |-> prefix \o "." \o msgs[i].name, file |-> fileName, chain |-> chain,
               own |-> msgs[i].name, kind |-> "message"] }
            \cup DeclaredEnums(msgs[i].enumType, fileName,
                               prefix \o "." \o msgs[i].name, Append(chain, msgs[i].name))
            \cup DeclaredMessages(msgs[i].nestedType, fileName,
                                  prefix \o "." \o msgs[i].name, Append(chain, msgs[i].name)) :
            i \in 1..Len(msgs) }

\* Every message and enum declared in the files of the request.
Declared ==
    UNION { DeclaredEnums(req.protoFile[i].enumType, req.protoFile[i].name,
                          PackagePrefix(req.protoFile[i]), <<>>)
            \cup DeclaredMessages(req.protoFile[i].messageType, req.protoFile[i].name,
                                  PackagePrefix(req.protoFile[i]), <<>>) :
            i \in 1..Len(req.protoFile) }

DeclaredNames == { d.name : d \in Declared }

\* The names of the types enclosing a registry entry, outermost first.
RECURSIVE EnclosingChain(_)
EnclosingChain(t) ==
    IF IsNil(t.parent) THEN <<>>
    ELSE Append(EnclosingChain(t.parent), elementName(t.parent))

\* The pre-pass of this run is over.
PrePassDone == pc = "loop" \/ (pc \in {"returned", "exited", "panicked"} /\ ~IsNil(options))

\* C5: after the pre-pass the registry holds, for every message and enum
\* declared at any depth in any file of the request, one entry under the
\* type's fully-qualified name, and the entry records the declaring file and
\* the enclosing chain of the declaration.
C5_RegistryHoldsEveryType ==
    PrePassDone =>
        /\ DOMAIN types = DeclaredNames
        /\ \A d \in Declared :
              /\ types[d.name].file.name = d.file
              /\ EnclosingChain(types[d.name]) = d.chain
              /\ elementName(types[d.name]) = d.own
              /\ (d.kind = "enum") <=> ~IsNil(types[d.name].enum)
              /\ (d.kind = "message") <=> ~IsNil(types[d.name].msg)

\* The pre-pass has registered the types nested two deep in d/t.proto, a file
\* that is not generated, and the map entry of m.proto.
C5_Witness ==
    /\ pc = "loop" /\ fileIdx = 0
    /\ "d/t.proto" \notin req.fileToGenerate
    /\ {".T.N.D", ".T.N.K", ".E", ".U", ".p.M.XEntry"} \subseteq DOMAIN types
    /\ EnclosingChain(types[".T.N.D"]) = <<"T", "N">>
    /\ types[".T.N.K"].file.name = "d/t.proto"

\* C6: while the requested files are generated the registry holds exactly
\* the entries of all declarations of the request - so already before the
\* first file - and no step of the generation changes it.
C6_RegistryFrozen ==
    [][pc = "loop" => (DOMAIN types = DeclaredNames /\ types' = types)]_vars

\* The loop has passed every file and generated m.proto, whose field t has a
\* type declared in d/t.proto.
C6_Witness ==
    /\ pc = "loop" /\ fileIdx = Len(req.protoFile)
    /\ Len(ResponseFiles) = 1 /\ ResponseFiles[1].source = "m.proto"
    /\ \E c \in GeneratedClasses :
          /\ c.name = "M"
          /\ \E i \in 1..Len(DeclaredFields(c)) : DeclaredFields(c)[i].typeName = ".T"
    /\ types[".T"].file.name = "d/t.proto"

\* C7: in every class that was generated, the identifiers of the class
\* scope - per oneof the storage slot, the discriminant slot, the
\* discriminant getter and the clear operation, per member the tag constant,
\* the getter and the setter, and the fields outside any oneof - are pairwise
\* distinct and none is a reserved word.
C7_NamesDistinct ==
    \A c \in GeneratedClasses :
        /\ \A i, j \in 1..Len(c.members) :
              i # j => c.members[i].name # c.members[j].name
        /\ \A i \in 1..Len(c.members) : c.members[i].name \notin reservedFieldNames

\* A run has written the class M with the oneof member i and the field
\* value_oneof_clear.
C7_Witness ==
    /\ pc = "exited"
    /\ \E c \in GeneratedClasses :
          /\ c.name = "M"
          /\ \E i \in 1..Len(c.members) :
                c.members[i].kind = "function" /\ c.members[i].name = "value_oneof_clear"
          /\ \E i \in 1..Len(c.members) :
                c.members[i].kind = "variable" /\ c.members[i].name = "value_oneof_clear"

\* The file the loop of Generate is at is requested and generateFile fails
\* on it.
CurrentFileFails ==
    /\ pc = "loop"
    /\ fileIdx < Len(req.protoFile)
    /\ req.protoFile[fileIdx + 1].name \in req.fileToGenerate
    /\ generateFile(resolver, types, options, imports, req.protoFile[fileIdx + 1]).err # ""

\* C8: when generating a requested file fails, Generate returns at once with
\* the error and no response, whatever was generated before; and a run with
\* an error holds no response and writes nothing to the output stream.
C8_AllOrNothing ==
    /\ [][CurrentFileFails => (pc' = "returned" /\ err' # "" /\ IsNil(resp'))]_vars
    /\ [](err # "" => (IsNil(resp) /\ stdout = <<>> /\ pc # "exited"))

\* d/t.proto was generated (only that puts u.proto into g.imports), then
\* m.proto failed: the run panicked without response and without output.
C8_Witness ==
    /\ pc = "panicked"
    /\ req.fileToGenerate = {"d/t.proto", "m.proto"}
    /\ {"u.proto", "m.proto"} \subseteq DOMAIN imports
    /\ err # "" /\ IsNil(resp) /\ stdout = <<>>

\* Every message declared in a list, at any depth.
RECURSIVE MessagesOf(_)
MessagesOf(msgs) ==
    UNION { {msgs[i]} \cup MessagesOf(msgs[i].nestedType) : i \in 1..Len(msgs) }

\* The fields of the messages of the requested files whose kind is message
\* or enum and whose type name is no key of the registry.
UnresolvedFields ==
    UNION { UNION { { m.field[k] :
                        k \in { j \in 1..Len(m.field) :
                                    /\ m.field[j].type \in {TYPE_MESSAGE, TYPE_ENUM}
                                    /\ m.field[j].typeName \notin DeclaredNames } } :
                    m \in MessagesOf(req.protoFile[i].messageType) } :
            i \in { j \in 1..Len(req.protoFile) :
                        req.protoFile[j].name \in req.fileToGenerate } }

\* main is over.
Terminated == pc \in {"exited", "panicked"}

\* The run failed and nothing was written.
RunFailed == pc = "panicked" /\ err # "" /\ IsNil(resp) /\ stdout = <<>>

\* C9 as stated, for the runs whose parameter parses: a run over a request
\* with an unresolved field fails without output, with the error that
\* reports such a field and its type name.
C9_UnresolvedIsReported ==
    (Terminated /\ ~IsNil(options) /\ UnresolvedFields # {}) =>
        /\ RunFailed
        /\ \E f \in UnresolvedFields : err = fieldTypeNotFound(f)

\* C9: a run over a request with an unresolved field fails without output;
\* its error reports such a field with its type name, unless the run stopped
\* earlier on a parameter that does not parse, on a name clash or on a type
\* of a file the generated file does not import.
C9_UnresolvedFailsRun ==
    (Terminated /\ UnresolvedFields # {}) =>
        /\ RunFailed
        /\ \/ \E f \in UnresolvedFields :
                 /\ err = fieldTypeNotFound(f)
                 /\ err = "failed to find fieldtype: " \o f.typeName
                              \o " for field: " \o f.name
           \/ HasPrefix(err, "failed to parse '")
           \/ HasPrefix(err, "name clash for for ")
           \/ HasPrefix(err, "failed to find import alias for file: ")

\* A run stopped on the oneof member gone, of the unknown type .p.Gone, in a
\* message that also has the field bad of an unknown type.
C9_Witness ==
    /\ pc = "panicked"
    /\ Cardinality(UnresolvedFields) = 2
    /\ \E f \in UnresolvedFields : f.oneofIndex = -1
    /\ \E f \in UnresolvedFields :
          /\ f.oneofIndex # -1
          /\ err = "failed to find fieldtype: .p.Gone for field: gone"

\* The fields of class c that are declared optional with the type named.
CoreFields(c, typ) ==
    { i \in 1..Len(DeclaredFields(c)) :
          /\ DeclaredFields(c)[i].label = LABEL_OPTIONAL
          /\ DeclaredFields(c)[i].type = TYPE_MESSAGE
          /\ DeclaredFields(c)[i].typeName = typ }

\* The variable and the presence test of field i of class c, a field outside
\* any oneof, have the given type, default and test.
FieldForms(c, i, type, default, test) ==
    DeclaredFields(c)[i].oneofIndex = -1 =>
        /\ \E k \in 1..Len(c.members) :
              /\ c.members[k].kind = "variable"
              /\ c.members[k].name = DeclaredFields(c)[i].name
              /\ c.members[k].type = type
              /\ c.members[k].value = default
        /\ \E k \in 1..Len(c.numFieldsSet) :
              /\ c.numFieldsSet[k].field = DeclaredFields(c)[i].name
              /\ c.numFieldsSet[k].test = test

\* Field i of class c is read, written and sized by the dedicated helpers of
\* the given kind, and has the forms of the value type.
Dedicated(c, i, what, type, default, test) ==
    /\ c.deserialize[i].read.call = "_protobuf.deserialize_" \o what
    /\ c.serialize[i].write.call = "_protobuf.serialize_" \o what
    /\ c.protobufSize[i].size.call = "_protobuf.size_" \o what
    /\ FieldForms(c, i, type, default, test)

\* The name a generated file uses for the class of the registered type typ:
\* the class name behind the alias g.imports holds for the declaring file.
ImportedClass(typ) == ToitType(types[typ], imports[types[typ].file.name])

\* Field i of class c is handled as any embedded message of the class named.
Generic(c, i, className) ==
    /\ c.deserialize[i].read.call \in {className \o ".deserialize",
                                       className \o ".deserialize_into"}
    /\ HasSuffix(c.serialize[i].write.call, ".serialize")
    /\ ~HasPrefix(c.serialize[i].write.call, "_protobuf.")
    /\ c.protobufSize[i].size.call = "_protobuf.size_embedded_message"
    /\ FieldForms(c, i, className, className, "is_empty")

C10_WitnessGeneric ==
    /\ pc = "exited" /\ ~options.CoreObjects
    /\ \E c \in GeneratedClasses :
          /\ c.name = "M"
          /\ CoreFields(c, coreDurationMessage) = {1, 2}
          /\ c.protobufSize[2].size.call = "_protobuf.size_embedded_message"

-----------------------------------------------------------------------------
(* Properties of the emission order.                                       *)

\* The position in the content of file of the enum or class written for the
\* type named tn (0: none is written).
PositionOf(file, tn) ==
    IF \E k \in 1..Len(file.content) : file.content[k].typeName = tn
    THEN CHOOSE k \in 1..Len(file.content) : file.content[k].typeName = tn
    ELSE 0

\* The registry's names of the enums and of the messages declared directly
\* inside the message named n.
NestedEnumsOf(n) ==
    { m \in DOMAIN types : /\ ~IsNil(types[m].enum) /\ ~IsNil(types[m].parent)
                           /\ Name(types[m].parent) = n }
NestedMessagesOf(n) ==
    { m \in DOMAIN types : /\ ~IsNil(types[m].msg) /\ ~IsNil(types[m].parent)
                           /\ Name(types[m].parent) = n }

\* The positions of everything written for the message named n and for what
\* is declared inside it at any depth.
PositionsWithin(file, n) ==
    { k \in 1..Len(file.content) :
          \/ file.content[k].typeName = n
          \/ HasPrefix(file.content[k].typeName, n \o ".") }

\* The messages declared in the source of a generated file that are no map
\* entries.
EmittedMessages(file) ==
    { n \in DOMAIN types : /\ ~IsNil(types[n].msg) /\ ~types[n].msg.mapEntry
                           /\ types[n].file.name = file.source }

\* C14: what is written for a message is one block of the file: first its
\* nested enums, then, for each nested message that is no map entry, the
\* block of that message, last the message's own class; for a message with
\* the map-entry option no class is written.
C14_EnumsNestedThenClass ==
    \A i \in 1..Len(ResponseFiles) :
        /\ \A k \in 1..Len(ResponseFiles[i].content) :
              /\ ResponseFiles[i].content[k].typeName \in DOMAIN types
              /\ PositionOf(ResponseFiles[i], ResponseFiles[i].content[k].typeName) = k
              /\ (ResponseFiles[i].content[k].kind = "class")
                     <=> ~IsNil(types[ResponseFiles[i].content[k].typeName].msg)
              /\ ResponseFiles[i].content[k].kind = "class"
                     => ~types[ResponseFiles[i].content[k].typeName].msg.mapEntry
        /\ \A n \in EmittedMessages(ResponseFiles[i]) :
              /\ PositionOf(ResponseFiles[i], n) # 0
              /\ PositionsWithin(ResponseFiles[i], n)
                     = (PositionOf(ResponseFiles[i], n)
                            - Cardinality(PositionsWithin(ResponseFiles[i], n)) + 1)
                       ..PositionOf(ResponseFiles[i], n)
              /\ \A e \in NestedEnumsOf(n) :
                    /\ PositionOf(ResponseFiles[i], e) # 0
                    /\ \A m \in NestedMessagesOf(n) :
                       \A k \in PositionsWithin(ResponseFiles[i], m) :
                           PositionOf(ResponseFiles[i], e) < k
              /\ \A m \in NestedMessagesOf(n) :
                    IF types[m].msg.mapEntry
                    THEN PositionsWithin(ResponseFiles[i], m) = {}
                    ELSE /\ PositionOf(ResponseFiles[i], m) # 0
                         /\ PositionOf(ResponseFiles[i], m) < PositionOf(ResponseFiles[i], n)

\* A run has written d/t.proto, where T nests N and N nests the enum K and
\* the message D, and m.proto, where M nests N and the map entry XEntry.
C14_Witness ==
    /\ pc = "exited"
    /\ Len(ResponseFiles) = 2
    /\ ResponseFiles[1].source = "d/t.proto"
    /\ [k \in 1..Len(ResponseFiles[1].content) |-> ResponseFiles[1].content[k].typeName]
           = << ".E", ".T.N.K", ".T.N.D", ".T.N", ".T" >>
    /\ ".p.M.XEntry" \in DOMAIN types
    /\ [k \in 1..Len(ResponseFiles[2].content) |-> ResponseFiles[2].content[k].typeName]
           = << ".p.M.N", ".p.M" >>

\* The names of the types declared in the file at position i of the request.
DeclaredIn(i) == { d.name : d \in { e \in Declared : e.file = req.protoFile[i].name } }

\* C15: the response of a successful run holds exactly one entry per file to
\* generate, named as the input path with .proto replaced by _pb.toit, and
\* it is what main writes; the other files of the request have their types
\* in the registry and no entry in the response.
C15_OneEntryPerRequestedFile ==
    pc = "exited" =>
        /\ stdout = << resp >>
        /\ { ResponseFiles[i].source : i \in 1..Len(ResponseFiles) } = req.fileToGenerate
        /\ Len(ResponseFiles) = Cardinality(req.fileToGenerate)
        /\ \A i \in 1..Len(ResponseFiles) :
              /\ Len(ResponseFiles[i].source) > 6
              /\ SubSeq(ResponseFiles[i].source, Len(ResponseFiles[i].source) - 5,
                        Len(ResponseFiles[i].source)) = ".proto"
              /\ ResponseFiles[i].name
                     = SubSeq(ResponseFiles[i].source, 1, Len(ResponseFiles[i].source) - 6)
                           \o "_pb.toit"
        /\ \A i \in 1..Len(req.protoFile) :
              req.protoFile[i].name \notin req.fileToGenerate
                  => /\ DeclaredIn(i) # {}
                     /\ DeclaredIn(i) \subseteq DOMAIN types
                     /\ \A k \in 1..Len(ResponseFiles) :
                           /\ ResponseFiles[k].source # req.protoFile[i].name
                           /\ ResponseFiles[k].name # protoToFile(req.protoFile[i].name)

\* A run asked for d/t.proto and m.proto has exited: its response holds
\* d/t_pb.toit and m_pb.toit, and nothing for the three other files.
C15_Witness ==
    /\ pc = "exited"
    /\ req.fileToGenerate = {"d/t.proto", "m.proto"}
    /\ Len(req.protoFile) = 5
    /\ [i \in 1..Len(ResponseFiles) |-> ResponseFiles[i].name]
           = << "d/t_pb.toit", "m_pb.toit" >>

-----------------------------------------------------------------------------
(* Properties of the field classifier.                                     *)

\* The fields declared by the messages of the registry, map entries
\* included.
RegistryFields ==
    UNION { { types[n].msg.field[i] : i \in 1..Len(types[n].msg.field) } :
            n \in { m \in DOMAIN types : ~IsNil(types[m].msg) } }

\* The classifications of the registry's fields that are made without
\* repetition: the field is not repeated, or repetition is suppressed; the
\* lookup of the field's type succeeded.
SingularClassifications ==
    UNION { { [field |-> f, class |-> resolveFieldType(types, f, ig).val.class] :
                ig \in { b \in BOOLEAN : b \/ f.label # LABEL_REPEATED } } :
            f \in { g \in RegistryFields : g.type \in {TYPE_MESSAGE, TYPE_ENUM}
                                              => g.typeName \in DOMAIN types } }

\* C11 as stated: without repetition a field is classified Primitive when its
\* kind is scalar and Object when its kind is message or enum.
C11_MessageOrEnumIsObject ==
    \A c \in SingularClassifications :
        c.class = IF c.field.type \in {TYPE_MESSAGE, TYPE_ENUM}
                  THEN fieldTypeClassObject ELSE fieldTypeClassPrimitive

\* C11: without repetition a field is classified Object exactly when its kind
\* is message, and Primitive for every other kind, the kind enum included; a
\* field of kind enum is read and written as a primitive of the wire type
\* enum.
C11_OnlyMessageIsObject ==
    /\ \A c \in SingularClassifications :
          c.class = IF c.field.type = TYPE_MESSAGE
                    THEN fieldTypeClassObject ELSE fieldTypeClassPrimitive
    /\ \A c \in GeneratedClasses :
          \A i \in 1..Len(DeclaredFields(c)) :
              (DeclaredFields(c)[i].type = TYPE_ENUM
                   /\ DeclaredFields(c)[i].label # LABEL_REPEATED)
                  => /\ c.deserialize[i].read.call = "r.read_primitive"
                     /\ c.deserialize[i].read.args = <<"_protobuf.PROTOBUF_TYPE_ENUM">>
                     /\ c.serialize[i].write.call = "w.write_primitive"

\* A run has written the class M with the repeated message field kids, whose
\* element is classified with repetition suppressed, and the enum field e.
C11_Witness ==
    /\ pc = "exited"
    /\ \E c \in GeneratedClasses :
          /\ c.name = "M"
          /\ Len(c.deserialize) = 2
          /\ c.deserialize[1].field = "kids"
          /\ c.deserialize[2].field = "e"
          /\ [field |-> DeclaredFields(c)[1], class |-> fieldTypeClassObject]
                 \in SingularClassifications
          /\ [field |-> DeclaredFields(c)[2], class |-> fieldTypeClassPrimitive]
                 \in SingularClassifications

-----------------------------------------------------------------------------
(* The calls of resolveFieldType, one at a time: each call in progress is  *)
(* a frame of the call stack.                                              *)

\* The deepest call stack followed.
MaxDepth == 5

\* A call resolveFieldType(field, ignoreRepeated): at is where the call
\* stands ("entry", or waiting for the call it made for the element of a
\* list, the key of a map or the value of a map), keyField the key's
\* classification once it has returned.
Frame(field, ignoreRepeated, at, keyField) ==
    [field |-> field, ignoreRepeated |-> ignoreRepeated, at |-> at, keyField |-> keyField]

\* The registry of a request whose only file declares M with the nested
\* message N, the nested enum K and a map-entry message XEntry with the given
\* value field.
ClassifyRegistry(valueField) ==
    resolveTypes(<<>>,
        << File("m.proto", "p", <<>>, <<>>,
                << Message("M",
                           << Int32Field("id", 1),
                              Field("tags", 3, LABEL_REPEATED, TYPE_STRING, "", -1),
                              Field("kids", 4, LABEL_REPEATED, TYPE_MESSAGE, ".p.M.N", -1),
                              Field("x", 5, LABEL_REPEATED, TYPE_MESSAGE, ".p.M.XEntry", -1),
                              Field("n", 6, LABEL_OPTIONAL, TYPE_MESSAGE, ".p.M.N", -1),
                              Field("ks", 7, LABEL_REPEATED, TYPE_ENUM, ".p.M.K", -1),
                              Field("odd", 8, LABEL_REPEATED, TYPE_MESSAGE, ".p.M.K", -1),
                              Field("bad", 11, LABEL_REPEATED, TYPE_MESSAGE, ".p.Missing", -1) >>,
                           << Message("N", << Int32Field("a", 1) >>, <<>>, <<>>, <<>>, FALSE),
                              Message("XEntry",
                                      << Field("key", 1, LABEL_OPTIONAL, TYPE_STRING, "", -1),
                                         valueField >>,
                                      <<>>, <<>>, <<>>, TRUE) >>,
                           << Enum("K", << [name |-> "K_ZERO", number |-> 0] >>) >>,
                           <<>>, FALSE) >>) >>)

\* The value fields of the map entry: an int32 and a message, as protoc
\* synthesises them for map<string, int32> and map<string, N>; and three a
\* request can hold although protoc does not produce them: a repeated int32,
\* a missing type, and a repeated field of the map entry's own type.
ValueFieldPool ==
    { Int32Field("value", 2),
      Field("value", 2, LABEL_OPTIONAL, TYPE_MESSAGE, ".p.M.N", -1),
      Field("value", 2, LABEL_REPEATED, TYPE_INT32, "", -1),
      Field("value", 2, LABEL_OPTIONAL, TYPE_MESSAGE, ".p.Missing", -1),
      Field("value", 2, LABEL_REPEATED, TYPE_MESSAGE, ".p.M.XEntry", -1) }

InitClassify ==
    /\ RangeAscending
    /\ types \in { ClassifyRegistry(v) : v \in ValueFieldPool }
    /\ callStack = <<>>
    /\ returned = Nil
    /\ cpc = "start"
    /\ importLibraries = <<>>
    /\ resolver = [keys |-> <<>>, values |-> <<>>]
    /\ sourceFile = None /\ importFile = None /\ prefixKey = None /\ importRef = None
    /\ ipc = "idle"
    /\ req = Nil /\ options = Nil /\ imports = <<>> /\ fileIdx = 0
    /\ resp = Nil /\ err = "" /\ stdout = <<>> /\ pc = "idle"
    /\ cls = Nil /\ object = <<>> /\ lastCall = Nil /\ opc = "idle" /\ given = <<>>
    /\ WriterIdle
    /\ UniqueIdle

\* The call on top of the stack, and the referType its lookup found (nil for
\* a field of a scalar kind).
TopCall == callStack[Len(callStack)]
TopType ==
    IF TopCall.field.type \in {TYPE_MESSAGE, TYPE_ENUM}
    THEN lookupType(types, TopCall.field.typeName).t
    ELSE Nil

\* The lookup of the top call's type fails.
LookupFails ==
    /\ TopCall.field.type \in {TYPE_MESSAGE, TYPE_ENUM}
    /\ ~lookupType(types, TopCall.field.typeName).ok

\* The top call returns v to its caller.
ReturnFromCall(v) ==
    /\ callStack' = SubSeq(callStack, 1, Len(callStack) - 1)
    /\ returned' = [field |-> TopCall.field, ignoreRepeated |-> TopCall.ignoreRepeated,
                    result |-> v]
    /\ cpc' = IF Len(callStack) = 1 THEN "done" ELSE "running"

\* The top call waits at the given place for the call it makes.
CallFromTop(at, keyField, field, ignoreRepeated) ==
    /\ Len(callStack) < MaxDepth
    /\ callStack' = Append([callStack EXCEPT ![Len(callStack)] =
                                Frame(TopCall.field, TopCall.ignoreRepeated, at, keyField)],
                           Frame(field, ignoreRepeated, "entry", Nil))
    /\ returned' = Nil
    /\ cpc' = "running"

\* writeMessage calls g.resolveFieldType(field, false) for a field of a
\* message it emits, which is no map entry.
Classify ==
    /\ cpc \in {"start", "done"}
    /\ \E n \in { m \in DOMAIN types : ~IsNil(types[m].msg) /\ ~types[m].msg.mapEntry } :
       \E i \in 1..Len(types[n].msg.field) :
          callStack' = << Frame(types[n].msg.field[i], FALSE, "entry", Nil) >>
    /\ returned' = Nil
    /\ cpc' = "running"
    /\ UNCHANGED <<ivars, gvars, ovars, wvars, uvars, rangeOrder>>

\* The call fails: the type is not in the registry, or a repeated field of
\* kind message that is not a list has a type that is no message.
ResolveFails ==
    /\ cpc = "running" /\ TopCall.at = "entry"
    /\ \/ /\ LookupFails
          /\ ReturnFromCall(Fail(fieldTypeNotFound(TopCall.field)))
       \/ /\ ~LookupFails
          /\ EffectiveLabel(TopCall.field, TopCall.ignoreRepeated) = LABEL_REPEATED
          /\ ~IsListField(TopCall.field, TopType)
          /\ IsNil(TopType.msg)
          /\ ReturnFromCall(Fail("fieldtype was not a message: " \o Name(TopType)
                                 \o " for field: " \o TopCall.field.name))
    /\ UNCHANGED <<ivars, gvars, ovars, wvars, uvars, rangeOrder>>

\* The label is optional or required, or repetition is suppressed: the call
\* returns Primitive or Object.
ResolveSingular ==
    /\ cpc = "running" /\ TopCall.at = "entry"
    /\ ~LookupFails
    /\ EffectiveLabel(TopCall.field, TopCall.ignoreRepeated)
           \in {LABEL_OPTIONAL, LABEL_REQUIRED}
    /\ ReturnFromCall(Ok(FieldType(singularClass(TopCall.field), TopCall.field, TopType,
                                   Nil, Nil)))
    /\ UNCHANGED <<ivars, gvars, ovars, wvars, uvars, rangeOrder>>

\* The List branch: g.resolveFieldType(field, true) for the element.
ResolveList ==
    /\ cpc = "running" /\ TopCall.at = "entry"
    /\ ~LookupFails
    /\ EffectiveLabel(TopCall.field, TopCall.ignoreRepeated) = LABEL_REPEATED
    /\ IsListField(TopCall.field, TopType) = TRUE
    /\ CallFromTop("list", Nil, TopCall.field, TRUE)
    /\ UNCHANGED <<ivars, gvars, ovars, wvars, uvars, rangeOrder>>

\* The Map branch: g.resolveFieldType(k, false) for the key.
ResolveMap ==
    /\ cpc = "running" /\ TopCall.at = "entry"
    /\ ~LookupFails
    /\ EffectiveLabel(TopCall.field, TopCall.ignoreRepeated) = LABEL_REPEATED
    /\ ~IsListField(TopCall.field, TopType)
    /\ ~IsNil(TopType.msg)
    /\ CallFromTop("key", Nil, GetMapFields(TopType.msg)[1], FALSE)
    /\ UNCHANGED <<ivars, gvars, ovars, wvars, uvars, rangeOrder>>

\* The call for the element has returned: its error, or the List.
ListReturns ==
    /\ cpc = "running" /\ TopCall.at = "list" /\ ~IsNil(returned)
    /\ ReturnFromCall(Bind(returned.result, LAMBDA valueField :
           Ok(FieldType(fieldTypeClassList, TopCall.field, TopType, Nil, valueField))))
    /\ UNCHANGED <<ivars, gvars, ovars, wvars, uvars, rangeOrder>>

\* The call for the key has returned: its error, or
\* g.resolveFieldType(v, false) for the value.
KeyReturns ==
    /\ cpc = "running" /\ TopCall.at = "key" /\ ~IsNil(returned)
    /\ IF returned.result.err # ""
       THEN ReturnFromCall(returned.result)
       ELSE CallFromTop("value", returned.result.val, GetMapFields(TopType.msg)[2], FALSE)
    /\ UNCHANGED <<ivars, gvars, ovars, wvars, uvars, rangeOrder>>

\* The call for the value has returned: its error, or the Map.
ValueReturns ==
    /\ cpc = "running" /\ TopCall.at = "value" /\ ~IsNil(returned)
    /\ ReturnFromCall(Bind(returned.result, LAMBDA valueField :
           Ok(FieldType(fieldTypeClassMap, TopCall.field, TopType, TopCall.keyField,
                        valueField))))
    /\ UNCHANGED <<ivars, gvars, ovars, wvars, uvars, rangeOrder>>

NextClassify ==
    \/ Classify \/ ResolveFails \/ ResolveSingular \/ ResolveList \/ ResolveMap
    \/ ListReturns \/ KeyReturns \/ ValueReturns

SpecClassify == InitClassify /\ [][NextClassify]_vars

\* The calls in progress, without the place each stands at.
CallsInProgress ==
    [i \in 1..Len(callStack) |->
        <<callStack[i].field, callStack[i].ignoreRepeated>>]

\* C12: classification terminates for every field of every registry: no call
\* of resolveFieldType is made while a call with the same arguments is in
\* progress (the registry does not change, so such a call would repeat its
\* caller's steps without end), and a call with repetition suppressed
\* returns Primitive or Object, never List or Map.
C12_ClassificationTerminates ==
    /\ \A i, j \in 1..Len(callStack) :
          CallsInProgress[i] = CallsInProgress[j] => i = j
    /\ (~IsNil(returned) /\ returned.ignoreRepeated /\ returned.result.err = "")
           => returned.result.val.class \in {fieldTypeClassPrimitive, fieldTypeClassObject}

\* Classifying the value field of the map entry of x, the call for that same
\* value field is in progress a second time.
C12_Witness ==
    /\ Len(callStack) >= 3
    /\ callStack[1].field.name = "x"
    /\ callStack[2].field.name = "value" /\ callStack[2].at = "value"
    /\ callStack[3].field = callStack[2].field
    /\ callStack[3].ignoreRepeated = callStack[2].ignoreRepeated

-----------------------------------------------------------------------------
(* Properties of the plugin parameters.                                    *)

RECURSIVE Flatten(_)
Flatten(ss) == IF ss = <<>> THEN <<>> ELSE Head(ss) \o Flatten(Tail(ss))

\* The elements of a parameter string between its separators ; and , .
ParameterElements(parameter) ==
    Flatten([i \in 1..Len(Split(parameter, ";")) |-> Split(Split(parameter, ";")[i], ",")])

\* The text from=to of an element: what follows import_library= when the
\* element is an occurrence of the parameter, the element itself otherwise.
MappingText(e) ==
    IF HasPrefix(e, importLibraryParam \o "=") THEN TrimPrefix(e, importLibraryParam \o "=")
    ELSE e

\* The from=to mappings a parameter string supplies for import_library.
SuppliedMappings(parameter) ==
    { SplitN2(MappingText(ParameterElements(parameter)[i]), "=") :
        i \in { j \in 1..Len(ParameterElements(parameter)) :
                  /\ Len(SplitN2(MappingText(ParameterElements(parameter)[j]), "=")) = 2
                  /\ SplitN2(ParameterElements(parameter)[j], "=")[1]
                        \notin {constructorInitializersParam, convertHooksParam,
                                 coreObjectsParam} } }

\* The number of times the parameter string sets import_library.
Occurrences(parameter) ==
    Cardinality({ j \in 1..Len(ParameterElements(parameter)) :
                    HasPrefix(ParameterElements(parameter)[j], importLibraryParam \o "=") })

\* C19: when the parameter string sets import_library several times, every
\* from=to mapping supplied is a rule of the import resolver.
C19_EveryOccurrenceBecomesRule ==
    (pc \notin {"main"} /\ err = "" /\ Occurrences(req.parameter) > 1) =>
        \A m \in SuppliedMappings(req.parameter) :
            /\ m[1] \in DOMAIN resolver.values
            /\ resolver.values[m[1]] = m[2]

\* import_library was set twice, for d/ and for e/, and the resolver holds
\* the rule for e/ and the built-in rule only.
C19_Witness ==
    /\ pc = "generate"
    /\ req.parameter = "import_library=d/=lib;import_library=e/=other"
    /\ SuppliedMappings(req.parameter) = { <<"d/", "lib">>, <<"e/", "other">> }
    /\ DOMAIN resolver.values = { "e/", "google/protobuf/" }
    /\ resolver.values["e/"] = "other"

\* The values the parameter string gives to a parameter, one for each element
\* param=value between semicolons.
ParameterValues(parameter, param) ==
    { TrimPrefix(Split(parameter, ";")[i], param \o "=") :
        i \in { j \in 1..Len(Split(parameter, ";")) :
                  HasPrefix(Split(parameter, ";")[j], param \o "=") } }

\* The spellings strconv.ParseBool accepts.
BoolSpellings ==
    { "1", "t", "T", "TRUE", "true", "True", "0", "f", "F", "FALSE", "false", "False" }

\* The boolean parameters the request gives a value that is no boolean.
Malformed ==
    { p \in {"constructor_initializers", "convert_hooks", "core_objects"} :
        ParameterValues(req.parameter, p) \ BoolSpellings # {} }

\* C20: once Run has parsed the parameters, (a) without a malformed boolean
\* parameter a generator exists and each absent boolean parameter has its
\* default: constructor_initializers false, convert_hooks false,
\* core_objects true; (b) with a malformed boolean parameter the run fails
\* with an error naming a malformed parameter, there is no generator (no
\* options, no resolver, no types), no response and nothing is written.
C20_DefaultsAndMalformedParameter ==
    pc # "main" =>
        IF Malformed = {}
        THEN /\ ~IsNil(options)
             /\ ParameterValues(req.parameter, "constructor_initializers") = {}
                    => options.ConstructorInitializers = FALSE
             /\ ParameterValues(req.parameter, "convert_hooks") = {}
                    => options.ConvertHooks = FALSE
             /\ ParameterValues(req.parameter, "core_objects") = {}
                    => options.CoreObjects = TRUE
        ELSE /\ pc \in {"returned", "panicked"}
             /\ \E p \in Malformed :
                    HasPrefix(err, "failed to parse '" \o p \o "' option reason: ")
             /\ IsNil(options)
             /\ resolver.keys = <<>>
             /\ types = <<>>
             /\ IsNil(resp)
             /\ stdout = <<>>

\* The run with constructor_initializers=yes has ended in main's panic with
\* the error of parseGeneratorOptions, and nothing was written.
C20_Witness ==
    /\ pc = "panicked"
    /\ req.parameter = "constructor_initializers=yes"
    /\ Malformed = {"constructor_initializers"}
    /\ err = "failed to parse 'constructor_initializers' option reason: "
                \o "strconv.ParseBool: parsing \"yes\": invalid syntax"
    /\ IsNil(options)
    /\ stdout = <<>>

-----------------------------------------------------------------------------
(* Properties of the default constructor.                                  *)

\* The names the slots and discriminants of the oneof groups have.
OneofStorage(c) ==
    UNION { {c.oneofTypes[k].FieldName, c.oneofTypes[k].CaseName} : k \in 1..Len(c.oneofTypes) }

\* The fields of the message that are no oneof members, by the name of
\* their member variable.
PlainFields(c) == { m.name : m \in Members(c, "variable") } \ OneofStorage(c)

\* The names of the members of oneof group o.
MemberNames(o) == { o.CaseFields[n] : n \in DOMAIN o.CaseFields }

\* The fields of the message, oneof members included.
MessageFields(c) ==
    PlainFields(c) \cup UNION { MemberNames(c.oneofTypes[k]) : k \in 1..Len(c.oneofTypes) }

\* The default the class declares for a member variable.
DeclaredDefault(c, n) == Literal((CHOOSE m \in Members(c, "variable") : m.name = n).value)

\* C21: the call of the default constructor.  With constructor_initializers
\* the constructor has one named parameter per field of the message, oneof
\* members included, each nullable with default null; after the call a field
\* whose parameter was given holds the argument, a field whose parameter was
\* not given holds its declared default, a oneof none of whose members was
\* given is unset, and a oneof with a member given holds the argument and the
\* tag of a given member.  Without the option the constructor has no
\* parameter and every field holds its declared default.
C21_ConstructorAssignsOnlyProvided ==
    [][(opc = "start" /\ opc' = "ready") =>
        IF options.ConstructorInitializers
        THEN /\ Len(cls.constructor) = Cardinality(MessageFields(cls))
             /\ { cls.constructor[k].name : k \in 1..Len(cls.constructor) }
                    = { "--" \o n : n \in MessageFields(cls) }
             /\ \A k \in 1..Len(cls.constructor) :
                    /\ cls.constructor[k].default = "null"
                    /\ HasSuffix(cls.constructor[k].type, "?")
             /\ DOMAIN given' = MessageFields(cls)
             /\ \A n \in PlainFields(cls) :
                    object'[n] = IF given'[n] # Null THEN given'[n]
                                 ELSE DeclaredDefault(cls, n)
             /\ \A k \in 1..Len(cls.oneofTypes) :
                    LET o == cls.oneofTypes[k]
                        provided == { n \in DOMAIN o.CaseFields : given'[o.CaseFields[n]] # Null }
                    IN IF provided = {}
                       THEN /\ object'[o.CaseName] = Null
                            /\ object'[o.FieldName] = Null
                       ELSE \E n \in provided :
                               /\ object'[o.CaseName] = IntV(Itoa(n))
                               /\ object'[o.FieldName] = given'[o.CaseFields[n]]
        ELSE /\ cls.constructor = <<>>
             /\ given' = <<>>
             /\ \A n \in DOMAIN object' : object'[n] = DeclaredDefault(cls, n)]_vars

\* An object of the class with the fields id and name and the members i and
\* s, constructed with --name="a" --value_s="a" only: id keeps its default 0,
\* name and the oneof hold the arguments.
C21_Witness ==
    /\ opc = "ready"
    /\ options.ConstructorInitializers
    /\ DOMAIN given = {"id", "name", "value_i", "value_s"}
    /\ given["id"] = Null /\ given["name"] = StrV("a")
    /\ given["value_i"] = Null /\ given["value_s"] = StrV("a")
    /\ object["id"] = IntV("0") /\ object["name"] = StrV("a")
    /\ object["value_oneof_case_"] = IntV("13") /\ object["value_"] = StrV("a")

-----------------------------------------------------------------------------
(* The operations the generator issues to the code writer, in the order it *)
(* issues them.  Each operation is recorded with what the generator does   *)
(* with the error it returns: a dropped error is not looked at, a checked  *)
(* one is returned to generateFile, directly or through util.FirstError.   *)

Dropped(op, text) == <<[op |-> op, text |-> text, checked |-> FALSE]>>
Checked(op, text) == <<[op |-> op, text |-> text, checked |-> TRUE]>>

\* writeEnum: nothing it gets back from the writer is looked at.
writeEnumOps(enum, tn, className) ==
    Dropped("SingleLineComment", "ENUM START: " \o className)
    \o Flatten([i \in 1..Len(enum.value) |-> Dropped("Const", Itoa(i))])
    \o Dropped("SingleLineComment", "ENUM END: " \o tn)
    \o Dropped("NewLine", "")

\* writeOneof: the storage, the clear function, the tag constants, the
\* getter of the discriminant, and a getter and a setter for each member.
writeOneofOps(o, tn) ==
    Checked("SingleLineComment", "ONEOF START: " \o tn)
    \o Checked("Variable", o.FieldName)
    \o Checked("Variable", o.CaseName)
    \o Checked("NewLine", "")
    \o Checked("StartFunctionDecl", o.ClearFunction)
    \o Checked("EndFunctionDecl", "none")
    \o Checked("StartAssignment", o.FieldName)
    \o Checked("Argument", "null")
    \o Checked("EndAssignment", "")
    \o Checked("StartAssignment", o.CaseName)
    \o Checked("Argument", "null")
    \o Checked("EndAssignment", "")
    \o Checked("EndFunction", "")
    \o Flatten([i \in 1..Cardinality(DOMAIN o.CaseFields) |-> Checked("StaticConst", Itoa(i))])
    \o Checked("NewLine", "")
    \o Checked("StartFunctionDecl", o.CaseGetter)
    \o Checked("EndFunctionDecl", "int?")
    \o Checked("ReturnStart", "")
    \o Checked("Argument", o.CaseName)
    \o Checked("ReturnEnd", "")
    \o Checked("EndFunction", "")
    \o Flatten([i \in 1..Cardinality(DOMAIN o.CaseFields) |->
           Checked("StartFunctionDecl", "getter " \o Itoa(i))
           \o Checked("EndFunctionDecl", "")
           \o Checked("ReturnStart", "")
           \o Checked("Argument", o.FieldName)
           \o Checked("ReturnEnd", "")
           \o Checked("EndFunction", "")
           \o Checked("StartFunctionDecl", "setter " \o Itoa(i))
           \o Checked("Parameter", o.Descriptor)
           \o Checked("EndFunctionDecl", "none")
           \o Checked("StartAssignment", o.FieldName)
           \o Checked("Argument", o.Descriptor)
           \o Checked("EndAssignment", "")
           \o Checked("StartAssignment", o.CaseName)
           \o Checked("Argument", "")
           \o Checked("EndAssignment", "")
           \o Checked("EndFunction", "")])
    \o Checked("SingleLineComment", "ONEOF END: " \o tn)

\* The loop over the fields in writeMessage: a member variable for each
\* field that is no oneof member; what w.Variable returns is not looked at.
writeFieldsOps(fields) ==
    Flatten([i \in 1..Len(fields) |->
        IF fields[i].field.oneofIndex # -1 THEN <<>>
        ELSE Dropped("Variable", uniqueName(fields[i].field.name, reservedFieldNames, "_"))])
    \o Dropped("NewLine", "")

\* writeDefaultConstructor
writeDefaultConstructorOps(opts, fields, oneofTypes) ==
    IF ~opts.ConstructorInitializers
    THEN Checked("StartConstructorDecl", "")
         \o Checked("EndConstructorDecl", "")
         \o Checked("EndConstructor", "")
    ELSE Checked("StartConstructorDecl", "")
         \o Flatten([i \in 1..Len(fields) |->
                Checked("EndLine", "")
                \o Checked("ParameterWithDefault", "--" \o FieldName(fields[i], oneofTypes))])
         \o Checked("EndConstructorDecl", "")
         \o Flatten([i \in 1..Len(fields) |->
                Checked("StartCall", "if")
                \o Checked("Argument", FieldName(fields[i], oneofTypes) \o " != null")
                \o Checked("StartBlock", "")
                \o Checked("StartAssignment", "this." \o FieldName(fields[i], oneofTypes))
                \o Checked("Argument", FieldName(fields[i], oneofTypes))
                \o Checked("EndAssignment", "")
                \o Checked("EndBlock", "")
                \o Checked("EndCall", "")])
         \o Checked("EndConstructor", "")

\* writeReadFieldType
RECURSIVE writeReadFieldTypeOps(_, _)
writeReadFieldTypeOps(opts, f) ==
    IF f.class = fieldTypeClassList
    THEN Checked("StartCall", "r.read_array")
         \o Checked("Argument", "_protobuf." \o protobufTypeConst(f.valueType.field.type).val)
         \o Checked("Argument", "")
         \o Checked("StartBlock", "")
         \o writeReadFieldTypeOps(opts, f.valueType)
         \o Checked("EndBlock", "")
         \o Checked("EndCall", "")
    ELSE IF f.class = fieldTypeClassMap
    THEN Checked("StartCall", "r.read_map")
         \o Checked("Argument", "")
         \o Checked("StartBlock", "")
         \o writeReadFieldTypeOps(opts, f.keyType)
         \o Checked("EndBlock", "")
         \o Checked("StartBlock", "")
         \o writeReadFieldTypeOps(opts, f.valueType)
         \o Checked("EndBlock", "")
         \o Checked("EndCall", "")
    ELSE IF f.class = fieldTypeClassObject
    THEN IF IsCoreDuration(opts, f) \/ IsCoreTimestamp(opts, f)
         THEN Checked("StartCall", IF IsCoreTimestamp(opts, f)
                                   THEN "_protobuf.deserialize_timestamp"
                                   ELSE "_protobuf.deserialize_duration")
              \o Checked("Argument", "r")
              \o Checked("EndCall", "")
         ELSE IF opts.ConvertHooks
         THEN Checked("StartCall", "deserialize_into")
              \o Checked("Argument", "r")
              \o Checked("Argument", "")
              \o Checked("EndCall", "")
         ELSE Checked("StartCall", "deserialize")
              \o Checked("Argument", "r")
              \o Checked("EndCall", "")
    ELSE Checked("StartCall", "r.read_primitive")
         \o Checked("Argument", "_protobuf." \o protobufTypeConst(f.field.type).val)
         \o Checked("EndCall", "")

\* writeReadFieldAssignment
writeReadFieldAssignmentOps(opts, f) ==
    IF opts.ConvertHooks /\ f.class # fieldTypeClassObject
    THEN Checked("StartCall", "_deserialize_")
         \o Checked("NewLine", "")
         \o writeReadFieldTypeOps(opts, f)
         \o Checked("EndCall", "")
    ELSE Checked("StartAssignment", "")
         \o Checked("Argument", "")
         \o writeReadFieldTypeOps(opts, f)
         \o Checked("EndAssignment", "")

\* writeReadFieldCall: the errors of its own calls of the writer are not
\* looked at, the error of writeReadFieldAssignment is.
writeReadFieldCallOps(opts, f) ==
    Dropped("StartCall", "r.read_field")
    \o Dropped("Argument", Itoa(f.field.number))
    \o Dropped("StartBlock", "")
    \o writeReadFieldAssignmentOps(opts, f)
    \o Dropped("EndBlock", "")
    \o Dropped("EndCall", "")

\* writeDeserializeBody
writeDeserializeBodyOps(opts, fields) ==
    Dropped("StartCall", "r.read_message")
    \o Dropped("StartBlock", "")
    \o (IF fields = <<>> THEN Dropped("Literal", "1")
        ELSE Flatten([i \in 1..Len(fields) |-> writeReadFieldCallOps(opts, fields[i])]))
    \o Dropped("EndBlock", "")
    \o Dropped("EndCall", "")

\* The operations of a function whose error the caller hands to
\* util.FirstError or returns: an error dropped inside it stays dropped.
\* writeDeserializeConstructor
writeDeserializeConstructorOps(opts, fields) ==
    Checked("StartConstructorDecl", "deserialize")
    \o Checked("Parameter", "r")
    \o Checked("EndConstructorDecl", "")
    \o (IF ~opts.ConvertHooks THEN writeDeserializeBodyOps(opts, fields)
        ELSE Checked("StartCall", "deserialize_into")
             \o Checked("Argument", "r")
             \o Checked("Argument", "this")
             \o Checked("EndCall", ""))
    \o Checked("EndConstructor", "")

\* writeDeserializeIntoMethod
writeDeserializeIntoMethodOps(opts, fields) ==
    Checked("StartStaticFunctionDecl", "deserialize_into")
    \o Checked("Parameter", "r")
    \o Checked("Parameter", "obj")
    \o Checked("EndFunctionDecl", "")
    \o writeDeserializeBodyOps(opts, fields)
    \o Checked("ReturnStart", "")
    \o Checked("Argument", "obj")
    \o Checked("ReturnEnd", "")
    \o Checked("EndFunction", "")

\* writeDeserializeFieldMethod
writeDeserializeFieldMethodOps(inCollection) ==
    IF inCollection
    THEN Checked("StartFunctionDecl", "_deserialize_")
         \o Checked("Parameter", "in")
         \o Checked("EndFunctionDecl", "any")
         \o Checked("ReturnStart", "")
         \o Checked("Argument", "in")
         \o Checked("ReturnEnd", "")
         \o Checked("EndFunction", "")
    ELSE Checked("StartFunctionDecl", "_deserialize_")
         \o Checked("Parameter", "in")
         \o Checked("EndFunctionDecl", "")
         \o Checked("StartAssignment", "")
         \o Checked("Argument", "in")
         \o Checked("EndAssignment", "")
         \o Checked("EndFunction", "")

\* writeSerializeFieldMethod
writeSerializeFieldMethodOps(inCollection) ==
    Checked("StartFunctionDecl", "_serialize_")
    \o (IF inCollection THEN Checked("Parameter", "in") ELSE <<>>)
    \o Checked("EndFunctionDecl", "")
    \o Checked("ReturnStart", "")
    \o Checked("Argument", "")
    \o Checked("ReturnEnd", "")
    \o Checked("EndFunction", "")

\* writeInitializeObjectMethod
writeInitializeObjectMethodOps ==
    Checked("StartFunctionDecl", "_initialize_")
    \o Checked("EndFunctionDecl", "")
    \o Checked("ReturnStart", "")
    \o Checked("Argument", "")
    \o Checked("ReturnEnd", "")
    \o Checked("EndFunction", "")

\* writeFieldConvertHooks
RECURSIVE writeFieldConvertHooksOps(_, _)
writeFieldConvertHooksOps(f, inCollection) ==
    IF f.class = fieldTypeClassList
    THEN writeDeserializeFieldMethodOps(FALSE)
         \o writeSerializeFieldMethodOps(FALSE)
         \o writeFieldConvertHooksOps(f.valueType, TRUE)
    ELSE IF f.class = fieldTypeClassMap
    THEN writeDeserializeFieldMethodOps(FALSE)
         \o writeSerializeFieldMethodOps(FALSE)
         \o writeFieldConvertHooksOps(f.keyType, TRUE)
         \o writeFieldConvertHooksOps(f.valueType, TRUE)
    ELSE IF f.class = fieldTypeClassObject
    THEN writeInitializeObjectMethodOps
         \o writeSerializeFieldMethodOps(inCollection)
    ELSE writeDeserializeFieldMethodOps(inCollection)
         \o writeSerializeFieldMethodOps(inCollection)

\* writeClassConvertHooks
writeClassConvertHooksOps(fields) ==
    Flatten([i \in 1..Len(fields) |-> writeFieldConvertHooksOps(fields[i], FALSE)])

\* writeSerializeNamedArguments
writeSerializeNamedArgumentsOps(asField, oneof) ==
    (IF asField # None THEN Checked("NamedArgument", "--as_field") ELSE <<>>)
    \o (IF oneof THEN Checked("NamedArgument", "--oneof") ELSE <<>>)

\* writeSerializeField with writeSerializeList, writeSerializeMap,
\* writeSerializeMessage and writeSerializePrimitive.
RECURSIVE writeSerializeFieldOps(_, _, _, _)
writeSerializeFieldOps(opts, f, asField, oneof) ==
    IF f.class = fieldTypeClassList
    THEN Checked("StartCall", "w.write_array")
         \o Checked("Argument", "_protobuf." \o protobufTypeConst(f.valueType.field.type).val)
         \o Checked("Argument", "")
         \o writeSerializeNamedArgumentsOps(asField, oneof)
         \o Checked("StartBlock", "value")
         \o writeSerializeFieldOps(opts, f.valueType, None, FALSE)
         \o Checked("EndBlock", "")
         \o Checked("EndCall", "")
    ELSE IF f.class = fieldTypeClassMap
    THEN Checked("StartCall", "w.write_map")
         \o Checked("Argument", "_protobuf." \o protobufTypeConst(f.keyType.field.type).val)
         \o Checked("Argument", "_protobuf." \o protobufTypeConst(f.valueType.field.type).val)
         \o Checked("Argument", "")
         \o writeSerializeNamedArgumentsOps(asField, oneof)
         \o Checked("StartBlock", "key")
         \o writeSerializeFieldOps(opts, f.keyType, None, FALSE)
         \o Checked("EndBlock", "")
         \o Checked("StartBlock", "value")
         \o writeSerializeFieldOps(opts, f.valueType, None, FALSE)
         \o Checked("EndBlock", "")
         \o Checked("EndCall", "")
    ELSE IF f.class = fieldTypeClassObject
    THEN IF IsCoreDuration(opts, f) \/ IsCoreTimestamp(opts, f)
         THEN Checked("StartCall", IF IsCoreTimestamp(opts, f)
                                   THEN "_protobuf.serialize_timestamp"
                                   ELSE "_protobuf.serialize_duration")
              \o Checked("Argument", "")
              \o Checked("Argument", "w")
              \o writeSerializeNamedArgumentsOps(asField, oneof)
              \o Checked("EndCall", "")
         ELSE Checked("StartCall", "serialize")
              \o Checked("Argument", "w")
              \o writeSerializeNamedArgumentsOps(asField, oneof)
              \o Checked("EndCall", "")
    ELSE Checked("StartCall", "w.write_primitive")
         \o Checked("Argument", "_protobuf." \o protobufTypeConst(f.field.type).val)
         \o Checked("Argument", "")
         \o writeSerializeNamedArgumentsOps(asField, oneof)
         \o Checked("EndCall", "")

\* writeSerializeOneofField
writeSerializeOneofFieldOps(opts, f, oneof) ==
    Checked("StartCall", "if")
    \o Checked("Argument", oneof.CaseName \o " == "
                             \o ToUpper(oneof.CaseFields[f.field.number]))
    \o Checked("StartBlock", "")
    \o writeSerializeFieldOps(opts, f, ToUpper(oneof.CaseFields[f.field.number]), TRUE)
    \o Checked("EndBlock", "")
    \o Checked("EndCall", "")

\* writeSerializeMethod: the errors of the declaration, of the header call
\* and of the end of the function are not looked at.
writeSerializeMethodOps(opts, fields, oneofTypes) ==
    Dropped("StartFunctionDecl", "serialize")
    \o Dropped("Parameter", "w")
    \o Dropped("ParameterWithDefault", "--as_field")
    \o Dropped("ParameterWithDefault", "--oneof")
    \o Dropped("EndFunctionDecl", "none")
    \o Dropped("StartCall", "w.write_message_header")
    \o Dropped("Argument", "this")
    \o Dropped("Argument", "--as_field=as_field")
    \o Dropped("Argument", "--oneof=oneof")
    \o Dropped("EndCall", "")
    \o (IF fields = <<>> THEN Dropped("Literal", "1")
        ELSE Flatten([i \in 1..Len(fields) |->
                 IF fields[i].field.oneofIndex # -1
                 THEN writeSerializeOneofFieldOps(opts, fields[i],
                                                  oneofTypes[fields[i].field.oneofIndex + 1])
                 ELSE writeSerializeFieldOps(opts, fields[i],
                                             Itoa(fields[i].field.number), FALSE)]))
    \o Dropped("EndFunction", "")

\* writeNumFieldsSetMethod: one condition expression per oneof group, then
\* one per field that is no oneof member.
writeNumFieldsSetMethodOps(fields, oneofTypes) ==
    Dropped("StartFunctionDecl", "num_fields_set")
    \o Dropped("EndFunctionDecl", "int")
    \o (IF fields = <<>>
        THEN Checked("ReturnStart", "")
             \o Checked("Argument", "0")
             \o Checked("ReturnEnd", "")
             \o Checked("EndFunction", "")
        ELSE Dropped("ReturnStart", "")
             \o Dropped("Argument", "")
             \o Flatten([i \in 1..Len(oneofTypes) |->
                    (IF i # 1 THEN Dropped("Literal", "+ ") ELSE <<>>)
                    \o Dropped("ConditionExpression", oneofTypes[i].CaseName \o " == null")
                    \o Dropped("EndLine", "")])
             \o Flatten([i \in 1..Len(SelectSeq(fields, LAMBDA f : f.field.oneofIndex = -1)) |->
                    (IF i + Len(oneofTypes) # 1 THEN Dropped("Literal", "+ ") ELSE <<>>)
                    \o Dropped("ConditionExpression", "")
                    \o Dropped("EndLine", "")])
             \o Dropped("ReturnEnd", "")
             \o Dropped("EndFunction", ""))

\* writeProtobufSizeField: in each case StartParens, StartCall, the
\* arguments, EndParens, EndCall.
writeProtobufSizeFieldOps(opts, f) ==
    Checked("StartParens", "")
    \o Checked("StartCall",
               IF f.class = fieldTypeClassList THEN "_protobuf.size_array"
               ELSE IF f.class = fieldTypeClassMap THEN "_protobuf.size_map"
               ELSE IF f.class = fieldTypeClassObject THEN protobufSizeObjectCall(opts, f)
               ELSE "_protobuf.size_primitive")
    \o (IF f.class = fieldTypeClassList
        THEN Checked("Argument", "_protobuf." \o protobufTypeConst(f.valueType.field.type).val)
        ELSE IF f.class = fieldTypeClassMap
        THEN Checked("Argument", "_protobuf." \o protobufTypeConst(f.keyType.field.type).val)
             \o Checked("Argument",
                        "_protobuf." \o protobufTypeConst(f.valueType.field.type).val)
        ELSE IF f.class = fieldTypeClassObject THEN <<>>
        ELSE Checked("Argument", "_protobuf." \o protobufTypeConst(f.field.type).val))
    \o Checked("Argument", "")
    \o Checked("NamedArgument", "--as_field")
    \o Checked("EndParens", "")
    \o Checked("EndCall", "")

\* writeProtobufSizeMethod
writeProtobufSizeMethodOps(opts, fields, oneofTypes) ==
    Dropped("StartFunctionDecl", "protobuf_size")
    \o Dropped("EndFunctionDecl", "int")
    \o (IF fields = <<>>
        THEN Checked("ReturnStart", "")
             \o Checked("Argument", "0")
             \o Checked("ReturnEnd", "")
             \o Checked("EndFunction", "")
        ELSE Dropped("ReturnStart", "")
             \o Dropped("Argument", "")
             \o Flatten([i \in 1..Len(fields) |->
                    (IF i # 1 THEN Dropped("EndLine", "") \o Dropped("Literal", "+ ")
                     ELSE <<>>)
                    \o (IF fields[i].field.oneofIndex # -1
                        THEN Checked("StartParens", "")
                             \o Checked("Literal", "")
                             \o Checked("Literal", " ? ")
                             \o writeProtobufSizeFieldOps(opts, fields[i])
                             \o Checked("Literal", " : ")
                             \o Checked("Literal", "0")
                             \o Checked("EndParens", "")
                        ELSE writeProtobufSizeFieldOps(opts, fields[i]))
                    \o Dropped("EndLine", "")])
             \o Dropped("ReturnEnd", "")
             \o Dropped("EndFunction", ""))

\* The class of a message: everything writeMessage issues from StartClass
\* to EndClass.
writeClassOps(opts, className, tn, fields, oneofTypes) ==
    Dropped("StartClass", className)
    \o Flatten([i \in 1..Len(oneofTypes) |-> writeOneofOps(oneofTypes[i], tn)])
    \o writeFieldsOps(fields)
    \o (IF opts.ConvertHooks THEN writeDeserializeIntoMethodOps(opts, fields) ELSE <<>>)
    \o writeDefaultConstructorOps(opts, fields, oneofTypes)
    \o writeDeserializeConstructorOps(opts, fields)
    \o (IF opts.ConvertHooks THEN writeClassConvertHooksOps(fields) ELSE <<>>)
    \o writeSerializeMethodOps(opts, fields, oneofTypes)
    \o writeNumFieldsSetMethodOps(fields, oneofTypes)
    \o writeProtobufSizeMethodOps(opts, fields, oneofTypes)
    \o Dropped("EndClass", "")

\* writeMessage, for a message all of whose types resolve: the nested enums,
\* the nested messages that are no map entries, then the class.
RECURSIVE writeMessageOps(_, _, _, _, _)
writeMessageOps(reg, opts, imps, msg, typePath) ==
    Dropped("SingleLineComment", "MESSAGE START: " \o typeName(msg.name, typePath))
    \o Flatten([i \in 1..Len(msg.enumType) |->
           writeEnumOps(msg.enumType[i],
                        typeName(msg.enumType[i].name, Append(typePath, msg.name)),
                        ToitType(lookupType(reg, typeName(msg.enumType[i].name,
                                                          Append(typePath, msg.name))).t, ""))])
    \o Flatten([i \in 1..Len(SelectSeq(msg.nestedType, LAMBDA m : ~m.mapEntry)) |->
           writeMessageOps(reg, opts, imps,
                           SelectSeq(msg.nestedType, LAMBDA m : ~m.mapEntry)[i],
                           Append(typePath, msg.name))])
    \o writeClassOps(opts, ToitType(lookupType(reg, typeName(msg.name, typePath)).t, ""),
                     typeName(msg.name, typePath),
                     WriteFields(reg, opts, imps, msg.field,
                                 WriteOneofs(reg, opts, imps, msg, 0,
                                             ClassScope({}, <<>>, <<>>, <<>>)).val).val.fields,
                     WriteFields(reg, opts, imps, msg.field,
                                 WriteOneofs(reg, opts, imps, msg, 0,
                                             ClassScope({}, <<>>, <<>>, <<>>)).val).val.oneofTypes)
    \o Dropped("SingleLineComment", "MESSAGE END: " \o typeName(msg.name, typePath))
    \o Dropped("NewLine", "")

-----------------------------------------------------------------------------
(* writeMessage, one operation of the writer at a time.                    *)

\* The construct an operation begins, and the one it ends ("" for none).
\* The end of a declaration begins the body of the function or constructor.
Begins(op) ==
    CASE op = "StartClass" -> "Class"
      [] op \in {"StartFunctionDecl", "StartStaticFunctionDecl"} -> "FunctionDecl"
      [] op = "EndFunctionDecl" -> "Function"
      [] op = "StartConstructorDecl" -> "ConstructorDecl"
      [] op = "EndConstructorDecl" -> "Constructor"
      [] op = "StartCall" -> "Call"
      [] op = "StartBlock" -> "Block"
      [] op = "StartParens" -> "Parens"
      [] op = "StartAssignment" -> "Assignment"
      [] op = "ReturnStart" -> "Return"
      [] OTHER -> ""

Ends(op) ==
    CASE op = "EndClass" -> "Class"
      [] op = "EndFunctionDecl" -> "FunctionDecl"
      [] op = "EndFunction" -> "Function"
      [] op = "EndConstructorDecl" -> "ConstructorDecl"
      [] op = "EndConstructor" -> "Constructor"
      [] op = "EndCall" -> "Call"
      [] op = "EndBlock" -> "Block"
      [] op = "EndParens" -> "Parens"
      [] op = "EndAssignment" -> "Assignment"
      [] op = "ReturnEnd" -> "Return"
      [] OTHER -> ""

\* The open constructs after the innermost open construct of the given kind
\* is ended.
RECURSIVE CloseInnermost(_, _)
CloseInnermost(stack, kind) ==
    IF stack = <<>> THEN <<>>
    ELSE IF stack[Len(stack)] = kind THEN SubSeq(stack, 1, Len(stack) - 1)
    ELSE Append(CloseInnermost(SubSeq(stack, 1, Len(stack) - 1), kind), stack[Len(stack)])

\* The open constructs after an operation.
AfterOp(stack, op) ==
    IF Begins(op) = "" THEN CloseInnermost(stack, Ends(op))
    ELSE Append(IF Ends(op) = "" THEN stack ELSE CloseInnermost(stack, Ends(op)), Begins(op))

\* The fields the message M is written with, all of types that resolve.
WriterFields == {1, 3, 4, 5, 6, 8, 9, 12, 13}

WriterOptions ==
    { parseGeneratorOptions(parseMap(p, ";", "=")).val :
        p \in { "", "convert_hooks=true;constructor_initializers=1", "core_objects=false" } }

WriterFiles(S) == << DurationFile, TimestampFile, UFile, TFile, MFile(S) >>

\* The operations generateFile has writeMessage issue for the first message
\* of the file.
ProgramOf(opts, files, file) ==
    writeMessageOps(resolveTypes(<<>>, files), opts,
                    createImports(newImportResolver(opts.ImportLibraries), <<>>, file).imports,
                    file.messageType[1],
                    IF file.package # None THEN <<file.package>> ELSE <<>>)

Programs ==
    { ProgramOf(opts, WriterFiles(S), MFile(S)) :
        opts \in WriterOptions,
        S \in { T \in SUBSET WriterFields : Cardinality(T) <= MaxFields } }
    \cup { ProgramOf(opts, WriterFiles({}), TFile) : opts \in WriterOptions }

InitWriter ==
    /\ RangeAscending
    /\ program \in Programs
    /\ issued = 0
    /\ open = <<>>
    /\ wellNested = TRUE
    /\ failed = FALSE
    /\ werr = ""
    /\ wpc = "writing"
    /\ importLibraries = <<>>
    /\ resolver = [keys |-> <<>>, values |-> <<>>]
    /\ sourceFile = None /\ importFile = None /\ prefixKey = None /\ importRef = None
    /\ ipc = "idle"
    /\ req = Nil /\ options = Nil /\ types = <<>> /\ imports = <<>> /\ fileIdx = 0
    /\ resp = Nil /\ err = "" /\ stdout = <<>> /\ pc = "idle"
    /\ cls = Nil /\ object = <<>> /\ lastCall = Nil /\ opc = "idle" /\ given = <<>>
    /\ callStack = <<>> /\ returned = Nil /\ cpc = "idle"
    /\ UniqueIdle

\* The operation issued next.
NextOp == program[issued + 1]

\* An operation that begins a construct, and ends none, is issued.
WriterBegins ==
    /\ wpc = "writing" /\ issued < Len(program)
    /\ Begins(NextOp.op) # "" /\ Ends(NextOp.op) = ""
    /\ open' = AfterOp(open, NextOp.op)
    /\ issued' = issued + 1
    /\ UNCHANGED <<program, wellNested, failed, werr, wpc, ivars, gvars, ovars, cvars, uvars, rangeOrder>>

\* An operation that ends a construct is issued.
WriterEnds ==
    /\ wpc = "writing" /\ issued < Len(program)
    /\ Ends(NextOp.op) # ""
    /\ open' = AfterOp(open, NextOp.op)
    /\ wellNested' = (wellNested /\ open # <<>> /\ open[Len(open)] = Ends(NextOp.op))
    /\ issued' = issued + 1
    /\ UNCHANGED <<program, failed, werr, wpc, ivars, gvars, ovars, cvars, uvars, rangeOrder>>

\* An operation that begins and ends nothing is issued.
WriterLeaf ==
    /\ wpc = "writing" /\ issued < Len(program)
    /\ Begins(NextOp.op) = "" /\ Ends(NextOp.op) = ""
    /\ issued' = issued + 1
    /\ UNCHANGED <<program, open, wellNested, failed, werr, wpc, ivars, gvars,
                   ovars, cvars, uvars, rangeOrder>>

\* What the generator does with the error of an operation.
errorReturned(op) == op.checked

\* The writer returns an error for the operation issued.  A checked error
\* ends writeMessage with that error; a dropped one is lost and writeMessage
\* goes on with the next operation.
WriterFails ==
    /\ wpc = "writing" /\ issued < Len(program)
    /\ ~failed
    /\ failed' = TRUE
    /\ issued' = issued + 1
    /\ IF errorReturned(NextOp)
       THEN /\ werr' = "writer: " \o NextOp.op
            /\ wpc' = "returned"
       ELSE UNCHANGED <<werr, wpc>>
    /\ UNCHANGED <<program, open, wellNested, ivars, gvars, ovars, cvars, uvars, rangeOrder>>

\* writeMessage returns nil.
WriterReturns ==
    /\ wpc = "writing" /\ issued = Len(program)
    /\ wpc' = "returned"
    /\ UNCHANGED <<program, issued, open, wellNested, failed, werr, ivars, gvars,
                   ovars, cvars, uvars, rangeOrder>>

NextWriter == WriterBegins \/ WriterEnds \/ WriterLeaf \/ WriterFails \/ WriterReturns

SpecWriter == InitWriter /\ [][NextWriter]_vars

\* C22: as long as the writer returns no error, every end operation the
\* generator issues closes the innermost open construct, and when
\* writeMessage returns no construct is open.
C22_BeginEndProperlyNested ==
    ~failed => /\ wellNested
               /\ wpc = "returned" => open = <<>>

\* protobuf_size of a message with one field: after StartParens and StartCall
\* the generator has issued EndParens while the call is the innermost open
\* construct.
C22_Witness ==
    /\ ~failed /\ ~wellNested
    /\ program[issued].op = "EndParens"
    /\ program[issued - 1].op = "NamedArgument"
    /\ open = <<"Class", "Function", "Return", "Call">>

\* C25: when the writer has returned an error for an operation of
\* writeMessage, writeMessage returns an error (and so does generateFile,
\* which returns the error of writeMessage, and the run, which produces no
\* output).
C25_WriterErrorFailsGeneration ==
    (wpc = "returned" /\ failed) => werr # ""

\* The writer returned an error for an operation, every operation of the
\* message was issued all the same, and writeMessage returned nil.
C25_Witness ==
    /\ wpc = "returned" /\ failed /\ werr = ""
    /\ issued = Len(program)
    /\ program[issued].op = "NewLine"

-----------------------------------------------------------------------------
(* uniqueName, one call.                                                   *)

NamePool == { "class", "id", "_core" }
UniquePrefixPool == { "_", "ab" }
UsedPool == { "class", "_class", "__class", "id", "abid", "ababid", "_core", "_id" }

InitUnique ==
    /\ RangeAscending
    /\ uargs \in [name : NamePool, namespace : SUBSET UsedPool, prefix : UniquePrefixPool]
    /\ uresult = None
    /\ upc = "start"
    /\ importLibraries = <<>>
    /\ resolver = [keys |-> <<>>, values |-> <<>>]
    /\ sourceFile = None /\ importFile = None /\ prefixKey = None /\ importRef = None
    /\ ipc = "idle"
    /\ req = Nil /\ options = Nil /\ types = <<>> /\ imports = <<>> /\ fileIdx = 0
    /\ resp = Nil /\ err = "" /\ stdout = <<>> /\ pc = "idle"
    /\ cls = Nil /\ object = <<>> /\ lastCall = Nil /\ opc = "idle" /\ given = <<>>
    /\ callStack = <<>> /\ returned = Nil /\ cpc = "idle"
    /\ WriterIdle

\* uniqueName(name, namespace, prefix) returns.
UniqueName ==
    /\ upc = "start"
    /\ uresult' = uniqueName(uargs.name, uargs.namespace, uargs.prefix)
    /\ upc' = "returned"
    /\ UNCHANGED <<uargs, ivars, gvars, ovars, cvars, wvars, rangeOrder>>

NextUnique == UniqueName

SpecUnique == InitUnique /\ [][NextUnique]_vars

\* C23: uniqueName returns the prefix repeated k times followed by the name,
\* for the smallest k for which that is no member of the set (0 when the name
\* is no member); k is at most the size of the set, the result is no member
\* of the set, and the same arguments give the same result.
C23_SmallestFreePrefixedName ==
    upc = "returned" =>
        /\ \E k \in 0..Cardinality(uargs.namespace) :
              /\ uresult = Repeat(uargs.prefix, k) \o uargs.name
              /\ \A j \in 0..(k - 1) : Repeat(uargs.prefix, j) \o uargs.name \in uargs.namespace
        /\ uresult \notin uargs.namespace
        /\ (uargs.name \notin uargs.namespace) => uresult = uargs.name

\* class, _class and __class are taken: the third prefixed name is free.
C23_Witness ==
    /\ upc = "returned"
    /\ uargs.name = "class" /\ uargs.prefix = "_"
    /\ {"class", "_class", "__class"} \subseteq uargs.namespace
    /\ uresult = "___class"

-----------------------------------------------------------------------------
(* Properties of a run as a whole.                                         *)

\* Generate's loop from file number i + 1 on, with g.imports and the
\* response as they stand.
RECURSIVE GenerateFrom(_, _, _, _, _, _, _)
GenerateFrom(r, reg, opts, imps, request, i, res) ==
    IF i = Len(request.protoFile) THEN [resp |-> res, err |-> ""]
    ELSE IF request.protoFile[i + 1].name \notin request.fileToGenerate
    THEN GenerateFrom(r, reg, opts, imps, request, i + 1, res)
    ELSE LET out == GenerateAppend(res, generateFile(r, reg, opts, imps,
                                                     request.protoFile[i + 1]))
         IN IF out.err # "" THEN out
            ELSE GenerateFrom(r, reg, opts,
                              createImports(r, imps, request.protoFile[i + 1]).imports,
                              request, i + 1, out.resp)

\* What a run on the request returns when its map ranges take the order the
\* runtime has settled now.
RunOutcome(request) ==
    LET parsed == parseGeneratorOptions(parseMap(request.parameter, ";", "="))
    IN IF parsed.err # "" THEN [resp |-> Nil, err |-> parsed.err]
       ELSE LET r == newImportResolver(parsed.val.ImportLibraries)
            IN GenerateFrom(r, resolveTypes(<<>>, request.protoFile),
                            [parsed.val EXCEPT !.ImportLibraries = r.values],
                            <<>>, request, 0, [file |-> <<>>])

\* Two outcomes are the same: both fail, or both return the same files.
SameOutcome(a, b) ==
    /\ (a.err # "") <=> (b.err # "")
    /\ a.err = "" => a.resp = b.resp

\* C24: two runs on the same request and parameter string have the same
\* outcome, whatever order the map ranges of either run take: both fail, or
\* both return the same files in the same order with the same names and
\* content.  A run starts from an empty generator, and what it returns is
\* what the request alone determines.
C24_RunsAreDeterministic ==
    /\ [](pc = "returned" => SameOutcome([resp |-> resp, err |-> err], RunOutcome(req)))
    /\ [][pc = "main" => (types' = <<>> /\ imports' = <<>>)]_vars

\* A run on a message whose oneof has two members has returned its file,
\* and a second run would take the two members in descending order.
C24_Witness ==
    /\ pc = "returned" /\ err = ""
    /\ Len(resp.file) = 1
    /\ \E i \in 1..Len(req.protoFile) :
          /\ req.protoFile[i].name = "m.proto"
          /\ { f.number : f \in { req.protoFile[i].messageType[1].field[j] :
                   j \in 1..Len(req.protoFile[i].messageType[1].field) } } = {12, 13}
    /\ rangeOrder[2] = 2

-----------------------------------------------------------------------------
(* Properties of the three wire bodies of a class.                         *)

\* The classification a call of the deserializing, serializing or size body
\* stands for.
ClassOfCall(call) ==
    IF call.call \in {"r.read_array", "w.write_array", "_protobuf.size_array"}
    THEN fieldTypeClassList
    ELSE IF call.call \in {"r.read_map", "w.write_map", "_protobuf.size_map"}
    THEN fieldTypeClassMap
    ELSE IF call.call \in {"r.read_primitive", "w.write_primitive", "_protobuf.size_primitive"}
    THEN fieldTypeClassPrimitive
    ELSE fieldTypeClassObject

\* The wire tags a call names with --as_field.
AsFields(call) ==
    { TrimPrefix(call.args[k], "--as_field=") :
        k \in { j \in 1..Len(call.args) : HasPrefix(call.args[j], "--as_field=") } }

\* The wire-kind constant a call on a primitive names.
KindOfPrimitive(call) ==
    IF ClassOfCall(call) = fieldTypeClassPrimitive THEN {call.args[1]} ELSE {}

\* The wire-kind constants a call names for the field itself, for the element
\* of a list, and for the key and the value of a map.
WireKinds(call) ==
    [self |-> KindOfPrimitive(call),
     elem |-> IF ClassOfCall(call) # fieldTypeClassList THEN {}
              ELSE {call.args[1]}
                   \cup (IF call.blocks = <<>> THEN {}
                         ELSE KindOfPrimitive(call.blocks[1].body)),
     key |-> IF ClassOfCall(call) # fieldTypeClassMap THEN {}
             ELSE (IF call.call = "r.read_map" THEN {} ELSE {call.args[1]})
                  \cup (IF call.blocks = <<>> THEN {}
                        ELSE KindOfPrimitive(call.blocks[1].body)),
     value |-> IF ClassOfCall(call) # fieldTypeClassMap THEN {}
               ELSE (IF call.call = "r.read_map" THEN {} ELSE {call.args[2]})
                    \cup (IF call.blocks = <<>> THEN {}
                          ELSE KindOfPrimitive(call.blocks[2].body))]

\* The wire-kind constant of a declared kind.
KindConst(type) == "_protobuf.PROTOBUF_" \o type

\* The wire-kind constants the declaration of f asks for, by role.
DeclaredKinds(f) ==
    IF IsMapDecl(f)
    THEN [self |-> {}, elem |-> {},
          key |-> {KindConst(types[f.typeName].msg.field[1].type)},
          value |-> {KindConst(types[f.typeName].msg.field[2].type)}]
    ELSE IF f.label = LABEL_REPEATED
    THEN [self |-> {}, elem |-> {KindConst(f.type)}, key |-> {}, value |-> {}]
    ELSE IF f.type = TYPE_MESSAGE
    THEN [self |-> {}, elem |-> {}, key |-> {}, value |-> {}]
    ELSE [self |-> {KindConst(f.type)}, elem |-> {}, key |-> {}, value |-> {}]

\* The value of the static constant of class c with the given name.
ConstantValues(c, name) ==
    { m.value : m \in { n \in Members(c, "static_const") : n.name = name } }

\* The three bodies of class c agree on its i-th field f.
WireBodiesAgree(c, i, f) ==
    LET rd == c.deserialize[i]
        wr == c.serialize[i]
        sz == c.protobufSize[i]
    IN /\ rd.field = f.name /\ wr.field = f.name /\ sz.field = f.name
       /\ Cardinality({ j \in 1..Len(c.deserialize) : c.deserialize[j].field = f.name }) = 1
       /\ Cardinality({ j \in 1..Len(c.serialize) : c.serialize[j].field = f.name }) = 1
       /\ Cardinality({ j \in 1..Len(c.protobufSize) : c.protobufSize[j].field = f.name }) = 1
       /\ rd.tag = Itoa(f.number)
       /\ AsFields(sz.size) = {Itoa(f.number)}
       /\ IF f.oneofIndex = -1
          THEN AsFields(wr.write) = {Itoa(f.number)}
          ELSE /\ AsFields(wr.write) = {wr.constant}
               /\ sz.constant = wr.constant
               /\ ConstantValues(c, wr.constant) = {Itoa(f.number)}
       /\ ClassOfCall(rd.read) = ClassOfCall(wr.write)
       /\ ClassOfCall(wr.write) = ClassOfCall(sz.size)
       /\ WireKinds(rd.read) = DeclaredKinds(f)
       /\ WireKinds(wr.write) = DeclaredKinds(f)
       /\ WireKinds(sz.size) = DeclaredKinds(f)

\* C26: for every field of a generated class, oneof members included, the
\* deserializing, the serializing and the size body each hold exactly one
\* entry; all three use the field's number as the wire tag (the tag constant
\* of a oneof member has that value); all three use the same classification
\* and the same wire-kind constants for the field, its element, its key and
\* its value.
C26_WireBodiesConsistent ==
    \A c \in GeneratedClasses :
        /\ Len(c.deserialize) = Len(DeclaredFields(c))
        /\ Len(c.serialize) = Len(DeclaredFields(c))
        /\ Len(c.protobufSize) = Len(DeclaredFields(c))
        /\ \A i \in 1..Len(DeclaredFields(c)) : WireBodiesAgree(c, i, DeclaredFields(c)[i])

\* A run has written the class M with the map field x and the oneof member
\* s: the three bodies hold the map with its key and value kinds and the
\* member under its tag constant.
C26_Witness ==
    /\ pc = "exited"
    /\ \E c \in GeneratedClasses :
          /\ c.name = "M"
          /\ Len(c.deserialize) = 2
          /\ c.deserialize[1].field = "x" /\ c.deserialize[2].field = "s"
          /\ c.deserialize[1].read.call = "r.read_map"
          /\ WireKinds(c.protobufSize[1].size).key = {"_protobuf.PROTOBUF_TYPE_STRING"}
          /\ WireKinds(c.serialize[1].write).value = {"_protobuf.PROTOBUF_TYPE_INT32"}
          /\ c.serialize[2].constant = "VALUE_S"
          /\ AsFields(c.serialize[2].write) = {"VALUE_S"}
          /\ AsFields(c.protobufSize[2].size) = {"13"}

-----------------------------------------------------------------------------
(* Runs on files that import one another.                                  *)

\* a/x.proto and b/x.proto have the same base name; each declares a message X
\* in its own package.
AXFile ==
    File("a/x.proto", "a", <<>>, <<>>, << Message("X", <<>>, <<>>, <<>>, <<>>, FALSE) >>)
BXFile ==
    File("b/x.proto", "b", <<>>, <<>>, << Message("X", <<>>, <<>>, <<>>, <<>>, FALSE) >>)

\* The fields the messages of p.proto and q.proto are drawn from.
ImportFieldPool ==
    << Field("ax", 1, LABEL_OPTIONAL, TYPE_MESSAGE, ".a.X", -1),
       Field("bx", 2, LABEL_OPTIONAL, TYPE_MESSAGE, ".b.X", -1),
       Field("p", 3, LABEL_OPTIONAL, TYPE_MESSAGE, ".p.P", -1),
       Field("self", 4, LABEL_OPTIONAL, TYPE_MESSAGE, ".q.Q", -1) >>

\* The file that declares the type of the n-th field of the pool.
DeclaringFile(n) == <<"a/x.proto", "b/x.proto", "p.proto", "q.proto">>[n]

RECURSIVE ImportFields(_)
ImportFields(S) ==
    IF S = {} THEN <<>>
    ELSE LET n == CHOOSE m \in S : \A o \in S : m <= o
         IN <<ImportFieldPool[n]>> \o ImportFields(S \ {n})

\* The dependency lists: the files of D in the order of the pool.
RECURSIVE DependencyList(_, _)
DependencyList(D, pool) ==
    IF pool = <<>> THEN <<>>
    ELSE (IF Head(pool) \in D THEN <<Head(pool)>> ELSE <<>>) \o DependencyList(D, Tail(pool))

\* p.proto imports the files of D, publicly, and declares P with the fields
\* numbered in S.
PFile(D, S) ==
    File("p.proto", "p", DependencyList(D, <<"a/x.proto", "b/x.proto">>), <<>>,
         << Message("P", ImportFields(S), <<>>, <<>>, <<>>, FALSE) >>)

\* q.proto imports the files of D and declares Q with the fields numbered
\* in S.
QFile(D, S) ==
    File("q.proto", "q", DependencyList(D, <<"a/x.proto", "b/x.proto", "p.proto">>), <<>>,
         << Message("Q", ImportFields(S), <<>>, <<>>, <<>>, FALSE) >>)

\* The files whose types a file with the dependencies D can name: its own,
\* those of D, and through p.proto those p.proto imports publicly.
Visible(own, D, throughP) ==
    {own} \cup D \cup (IF "p.proto" \in D THEN throughP ELSE {})

\* The requests protoc can send: every field names a type visible in its
\* file; the files come in dependency order.
ImportRequests ==
    { [parameter |-> "", fileToGenerate |-> G,
       protoFile |-> << AXFile, BXFile, PFile(DP, SP), QFile(DQ, SQ) >>] :
        G \in { {"q.proto"}, {"p.proto", "q.proto"}, {"a/x.proto", "q.proto"},
                {"a/x.proto", "b/x.proto", "p.proto", "q.proto"} },
        DP \in SUBSET {"a/x.proto", "b/x.proto"},
        SP \in SUBSET {1, 2},
        DQ \in SUBSET {"a/x.proto", "b/x.proto", "p.proto"},
        SQ \in SUBSET {1, 2, 3, 4} }

ValidImportRequest(r) ==
    /\ \A i \in 1..Len(r.protoFile[3].messageType[1].field) :
          \E n \in 1..2 :
             /\ r.protoFile[3].messageType[1].field[i] = ImportFieldPool[n]
             /\ DeclaringFile(n) \in { r.protoFile[3].dependency[k] :
                                          k \in 1..Len(r.protoFile[3].dependency) }
    /\ \A i \in 1..Len(r.protoFile[4].messageType[1].field) :
          \E n \in 1..4 :
             /\ r.protoFile[4].messageType[1].field[i] = ImportFieldPool[n]
             /\ DeclaringFile(n) \in
                   Visible("q.proto",
                           { r.protoFile[4].dependency[k] :
                               k \in 1..Len(r.protoFile[4].dependency) },
                           { r.protoFile[3].dependency[k] :
                               k \in 1..Len(r.protoFile[3].dependency) })
    /\ Len(r.protoFile[4].messageType[1].field) <= MaxFields

InitImports ==
    /\ RangeAscending
    /\ req \in { r \in ImportRequests : ValidImportRequest(r) }
    /\ options = Nil
    /\ types = <<>>
    /\ imports = <<>>
    /\ fileIdx = 0
    /\ resp = Nil
    /\ err = ""
    /\ stdout = <<>>
    /\ pc = "main"
    /\ importLibraries = <<>>
    /\ resolver = [keys |-> <<>>, values |-> <<>>]
    /\ sourceFile = None /\ importFile = None /\ prefixKey = None /\ importRef = None
    /\ ipc = "idle"
    /\ cls = Nil /\ object = <<>> /\ lastCall = Nil /\ opc = "idle" /\ given = <<>>
    /\ callStack = <<>> /\ returned = Nil /\ cpc = "idle"
    /\ WriterIdle
    /\ UniqueIdle

SpecImports == InitImports /\ [][Next]_vars

\* The aliases the import statements of a generated file bind, in order.
AliasesOf(file) == [k \in 1..Len(file.imports) |-> file.imports[k].alias]

\* C27: within one generated file the aliases the import statements bind are
\* pairwise distinct: those of two dependencies differ from one another and
\* from the fixed aliases _protobuf and _core.
C27_ImportAliasesDistinct ==
    \A i \in 1..Len(ResponseFiles) :
        \A j, k \in 1..Len(ResponseFiles[i].imports) :
            j # k => AliasesOf(ResponseFiles[i])[j] # AliasesOf(ResponseFiles[i])[k]

\* q.proto imports a/x.proto and b/x.proto: both import statements of the
\* file generated for it bind _x.
C27_Witness ==
    \E i \in 1..Len(ResponseFiles) :
        /\ ResponseFiles[i].source = "q.proto"
        /\ AliasesOf(ResponseFiles[i]) = <<"_protobuf", "_core", "_x", "_x">>
        /\ ResponseFiles[i].imports[3].library # ResponseFiles[i].imports[4].library

\* The classes of a generated file.
ClassesOf(file) ==
    { file.content[k] : k \in { j \in 1..Len(file.content) : file.content[j].kind = "class" } }

\* The descriptor of the requested file with the given name.
RequestedFile(name) ==
    req.protoFile[CHOOSE k \in 1..Len(req.protoFile) : req.protoFile[k].name = name]

\* The aliases the import statements of the generated file bind for the
\* dependency dep of its source: the k-th dependency has the k-th import
\* statement after the two fixed ones.
BoundAliases(file, dep) ==
    { file.imports[k + 2].alias :
        k \in { j \in 1..Len(RequestedFile(file.source).dependency) :
                    RequestedFile(file.source).dependency[j] = dep } }

\* How the deserializing body of c names the class of its k-th field.
ReferencedAs(c, k) == TrimSuffix(c.deserialize[k].read.call, ".deserialize")

\* The k-th field of c holds a message that is read by the deserialize
\* operation of its class.
RefersToClass(c, k) ==
    /\ DeclaredFields(c)[k].type = TYPE_MESSAGE
    /\ HasSuffix(c.deserialize[k].read.call, ".deserialize")

\* C28: whenever the code generated for file F refers to a type declared in
\* file G, the reference is unqualified if G is F and otherwise qualified
\* with the alias an import statement of F's own file binds for G; no
\* reference uses an entry of the import table left over from an earlier
\* file.
C28_ReferencesUseOwnImports ==
    \A i \in 1..Len(ResponseFiles) :
        \A c \in ClassesOf(ResponseFiles[i]) :
            \A k \in 1..Len(DeclaredFields(c)) :
                RefersToClass(c, k) =>
                    LET t == types[DeclaredFields(c)[k].typeName]
                    IN IF t.file.name = ResponseFiles[i].source
                       THEN ReferencedAs(c, k) = ToitType(t, "")
                       ELSE \E a \in BoundAliases(ResponseFiles[i], t.file.name) :
                               ReferencedAs(c, k) = a \o "." \o ToitType(t, "")

\* p.proto, which imports a/x.proto, was generated first; q.proto imports
\* p.proto alone and its message holds an a.X: the class Q names it _x.X,
\* and the file generated for q.proto binds no _x.
C28_Witness ==
    /\ pc = "exited"
    /\ \E i \in 1..Len(ResponseFiles) :
          /\ ResponseFiles[i].source = "q.proto"
          /\ AliasesOf(ResponseFiles[i]) = <<"_protobuf", "_core", "_p">>
          /\ \E c \in ClassesOf(ResponseFiles[i]) :
                /\ c.name = "Q"
                /\ Len(DeclaredFields(c)) = 1
                /\ DeclaredFields(c)[1].typeName = ".a.X"
                /\ ReferencedAs(c, 1) = "_x.X"

\* a/x.proto was generated first; q.proto imports p.proto alone and its
\* message holds an a.X: the class Q names it X, without an alias.
EarlierFileUnqualified ==
    /\ pc = "exited"
    /\ \E i \in 1..Len(ResponseFiles) :
          /\ ResponseFiles[i].source = "q.proto"
          /\ AliasesOf(ResponseFiles[i]) = <<"_protobuf", "_core", "_p">>
          /\ \E c \in ClassesOf(ResponseFiles[i]) :
                /\ c.name = "Q"
                /\ Len(DeclaredFields(c)) = 1
                /\ DeclaredFields(c)[1].typeName = ".a.X"
                /\ ReferencedAs(c, 1) = "X"

-----------------------------------------------------------------------------
(* Properties of the generated class names.                                *)

\* The enclosing messages' names, outermost first, then the type's own name,
\* joined by "_".
OutermostFirstName(t) == JoinWith(Append(EnclosingChain(t), elementName(t)), "_")

\* The types of the registry that the given file declares.
TypesOfFile(name) == { n \in DOMAIN types : types[n].file.name = name }

\* Distinct types of one file whose names hold no "_" have distinct class
\* names.
DistinctClassNames ==
    \A n1, n2 \in DOMAIN types :
        (/\ n1 # n2
         /\ types[n1].file.name = types[n2].file.name
         /\ IndexOf(n1, "_") = 0 /\ IndexOf(n2, "_") = 0)
            => ToitType(types[n1], "") # ToitType(types[n2], "")

\* C29: the class name of a type nested at any depth is the names of its
\* enclosing messages, outermost first, joined by "_", then "_" and its own
\* name; a top-level type keeps its name; an import alias and "." come in
\* front when an alias is given; the generated class carries that name; and
\* distinct types of one file without "_" in their names get distinct class
\* names.
C29_ClassNameOutermostFirst ==
    /\ \A n \in DOMAIN types :
          /\ ToitType(types[n], "") = OutermostFirstName(types[n])
          /\ ToitType(types[n], "_t") = "_t." \o OutermostFirstName(types[n])
    /\ \A c \in GeneratedClasses : c.name = OutermostFirstName(types[c.typeName])
    /\ DistinctClassNames

\* The file generated for d/t.proto holds the class of T.N.D, nested at
\* depth two, under the name N_T_D.
C29_Witness ==
    /\ pc = "exited"
    /\ \E c \in GeneratedClasses :
          /\ c.typeName = ".T.N.D"
          /\ EnclosingChain(types[c.typeName]) = <<"T", "N">>
          /\ c.name = "N_T_D"

====
